---- MODULE Spec2Model ----
(***************************************************************************)
(* NamespaceLabel operator: the reconciliation and protection engine of    *)
(* internal/controller (status-field variant of the applied-set record,    *)
(* namespacelabel_controller.go lines 320-543, with the helpers of         *)
(* utils.go).  One NamespaceLabel resource, its target namespace and the   *)
(* protection ConfigMap are the object store; a reconciliation pass is one *)
(* atomic action whose writes may each be rejected by the store.  A second *)
(* namespace with its own resource (peer) is there for the claims about    *)
(* isolation between namespaces.                                           *)
(***************************************************************************)
EXTENDS Integers, Sequences, FiniteSets, TLC

VARIABLES cr, ns, cm, edits, lastPass, fn, peer, hook

vars == <<cr, ns, cm, edits, lastPass, fn, peer, hook>>

(***************************************************************************)
(* Bounds                                                                  *)
(***************************************************************************)
\* external events (create/update/delete of the objects) in one behaviour
MaxEdits == 3
\* reconciliation passes in a row between two external events
MaxRun == 3

(***************************************************************************)
(* Strings that are matched character by character are sequences of        *)
(* one-character strings.                                                  *)
(***************************************************************************)
KeyA == <<"a">>
KeyP == <<"k", "/", "p">>
Keys == {KeyA, KeyP}
Values == {"1", "2"}

PatK == <<"k", "/", "*">>

\* a Go nil map or slice is None, a non-nil one is Some(x)
None == <<>>
Some(x) == <<x>>

EmptyMap == [k \in {} |-> "1"]

Restrict(m, d) == [k \in d |-> m[k]]

LabelMapsOver(ks, vs) == UNION {[d -> vs] : d \in SUBSET ks}
LabelMaps == LabelMapsOver(Keys, Values)

\* Go map read: the zero value "" for a missing key
Lookup(m, k) == IF k \in DOMAIN m THEN m[k] ELSE ""

RECURSIVE Perms(_)
Perms(S) ==
    IF S = {} THEN {<<>>}
    ELSE UNION {{<<x>> \o p : p \in Perms(S \ {x})} : x \in S}

Range(s) == {s[i] : i \in 1..Len(s)}

(***************************************************************************)
(* path/filepath.Match (Unix): '*' any run of non-'/' characters, '?' one  *)
(* non-'/' character, '[...]' a character class, anything else a literal;  *)
(* a malformed pattern is ErrBadPattern.                                   *)
(***************************************************************************)
Separator == "/"

Tail2(s, n) == SubSeq(s, n + 1, Len(s))

\* index of the ']' closing the class opened at position i, 0 when the class
\* is not closed or is empty
RECURSIVE ClassEnd(_, _)
ClassEnd(p, j) ==
    IF j > Len(p) THEN 0
    ELSE IF p[j] = "]" THEN j
    ELSE ClassEnd(p, j + 1)

ClassClose(p) ==
    LET start == IF Len(p) >= 2 /\ p[2] = "^" THEN 3 ELSE 2
    IN  IF start > Len(p) \/ p[start] = "]" THEN 0 ELSE ClassEnd(p, start + 1)

ClassStart(p) == IF Len(p) >= 2 /\ p[2] = "^" THEN 3 ELSE 2

RECURSIVE BadPattern(_)
BadPattern(p) ==
    IF p = <<>> THEN FALSE
    ELSE IF p[1] = "[" THEN
        IF ClassClose(p) = 0 THEN TRUE ELSE BadPattern(Tail2(p, ClassClose(p)))
    ELSE BadPattern(Tail(p))

RECURSIVE GlobMatch(_, _)
GlobMatch(p, s) ==
    IF p = <<>> THEN s = <<>>
    ELSE IF p[1] = "*" THEN
        \/ GlobMatch(Tail(p), s)
        \/ /\ s # <<>>
           /\ s[1] # Separator
           /\ GlobMatch(p, Tail(s))
    ELSE IF s = <<>> THEN FALSE
    ELSE IF p[1] = "?" THEN s[1] # Separator /\ GlobMatch(Tail(p), Tail(s))
    ELSE IF p[1] = "[" THEN
        LET close == ClassClose(p)
            members == {p[i] : i \in ClassStart(p)..(close - 1)}
            negated == p[2] = "^"
        IN  /\ close # 0
            /\ (s[1] \in members) # negated
            /\ GlobMatch(Tail2(p, close), Tail(s))
    ELSE p[1] = s[1] /\ GlobMatch(Tail(p), Tail(s))

Match(pattern, name) ==
    IF BadPattern(pattern) THEN [matched |-> FALSE, err |-> TRUE]
    ELSE [matched |-> GlobMatch(pattern, name), err |-> FALSE]

\* strings.ReplaceAll(pattern, "**", "*"): non-overlapping, left to right
RECURSIVE ReplaceStarStar(_)
ReplaceStarStar(p) ==
    IF Len(p) < 2 THEN p
    ELSE IF p[1] = "*" /\ p[2] = "*" THEN <<"*">> \o ReplaceStarStar(Tail2(p, 2))
    ELSE <<p[1]>> \o ReplaceStarStar(Tail(p))

\* isLabelProtected giving up at the first pattern the matcher rejects
RECURSIVE isLabelProtected_StopAtMalformed(_, _)
isLabelProtected_StopAtMalformed(labelKey, patterns) ==
    IF patterns = <<>> THEN FALSE
    ELSE LET pattern == Head(patterns)
             m == Match(ReplaceStarStar(pattern), labelKey)
         IN  IF pattern = <<>>
             THEN isLabelProtected_StopAtMalformed(labelKey, Tail(patterns))
             ELSE IF m.err THEN FALSE
             ELSE IF m.matched THEN TRUE
             ELSE isLabelProtected_StopAtMalformed(labelKey, Tail(patterns))

RECURSIVE isLabelProtected(_, _)
isLabelProtected(labelKey, patterns) ==
    IF patterns = <<>> THEN FALSE
    ELSE LET pattern == Head(patterns)
             m == Match(ReplaceStarStar(pattern), labelKey)
         IN  IF pattern = <<>> THEN isLabelProtected(labelKey, Tail(patterns))
             ELSE IF m.err THEN isLabelProtected(labelKey, Tail(patterns))
             ELSE IF m.matched THEN TRUE
             ELSE isLabelProtected(labelKey, Tail(patterns))

(***************************************************************************)
(* Label set algebra (utils.go)                                            *)
(***************************************************************************)
\* removeStaleLabels without the comparison of the live value
removeStaleLabels_AnyValue(current, desired, prevApplied) ==
    LET gone == {key \in DOMAIN prevApplied :
                    /\ key \notin DOMAIN desired
                    /\ key \in DOMAIN current}
    IN  [labels |-> Restrict(current, DOMAIN current \ gone),
         changed |-> gone # {}]

\* removeStaleLabels that also drops a key whose desired value changed
removeStaleLabels_ChangedValue(current, desired, prevApplied) ==
    LET gone == {key \in DOMAIN prevApplied :
                    /\ Lookup(desired, key) # prevApplied[key]
                    /\ key \in DOMAIN current
                    /\ current[key] = prevApplied[key]}
    IN  [labels |-> Restrict(current, DOMAIN current \ gone),
         changed |-> gone # {}]

removeStaleLabels(current, desired, prevApplied) ==
    LET gone == {key \in DOMAIN prevApplied :
                    /\ key \notin DOMAIN desired
                    /\ key \in DOMAIN current
                    /\ current[key] = prevApplied[key]}
    IN  [labels |-> Restrict(current, DOMAIN current \ gone),
         changed |-> gone # {}]

\* applyDesiredLabels that sets only the keys the namespace does not carry
applyDesiredLabels_OnlyMissing(current, desired) ==
    LET set == DOMAIN desired \ DOMAIN current
    IN  [labels |-> [key \in DOMAIN current \cup set |->
                        IF key \in set THEN desired[key] ELSE current[key]],
         changed |-> set # {}]

applyDesiredLabels(current, desired) ==
    LET set == {key \in DOMAIN desired : Lookup(current, key) # desired[key]}
    IN  [labels |-> [key \in DOMAIN current \cup set |->
                        IF key \in set THEN desired[key] ELSE current[key]],
         changed |-> set # {}]

\* applyLabelsToNamespace that replaces the label map by the desired one
applyLabelsToNamespace_Replace(labels, desired, prevApplied) ==
    [labels |-> desired, changed |-> labels # desired]

\* applyLabelsToNamespace that takes the applied-set's word for the labels
\* it records and sets only the desired pairs not recorded there
applyLabelsToNamespace_TrustApplied(labels, desired, prevApplied) ==
    LET stale == removeStaleLabels(labels, desired, prevApplied)
        fresh == {k \in DOMAIN desired : Lookup(prevApplied, k) # desired[k]}
        applied == applyDesiredLabels(stale.labels, Restrict(desired, fresh))
    IN  [labels |-> applied.labels, changed |-> stale.changed \/ applied.changed]

applyLabelsToNamespace(labels, desired, prevApplied) ==
    LET r == removeStaleLabels(labels, desired, prevApplied)
        a == applyDesiredLabels(r.labels, desired)
    IN  [labels |-> a.labels, changed |-> a.changed \/ r.changed]

\* the loop of removeStaleLabels (utils.go 84-91) over the keys of
\* prevApplied in the order the map iteration yields them
RECURSIVE removeStaleLoop(_, _, _, _, _)
removeStaleLoop(order, current, desired, prevApplied, changed) ==
    IF order = <<>> THEN [labels |-> current, changed |-> changed]
    ELSE LET key == Head(order)
         IN  IF /\ key \notin DOMAIN desired
                /\ key \in DOMAIN current
                /\ current[key] = prevApplied[key]
             THEN removeStaleLoop(Tail(order),
                                  Restrict(current, DOMAIN current \ {key}),
                                  desired, prevApplied, TRUE)
             ELSE removeStaleLoop(Tail(order), current, desired, prevApplied,
                                  changed)

\* the loop of applyDesiredLabels (utils.go 97-102) over the keys of desired
\* in the order the map iteration yields them
RECURSIVE applyDesiredLoop(_, _, _, _)
applyDesiredLoop(order, current, desired, changed) ==
    IF order = <<>> THEN [labels |-> current, changed |-> changed]
    ELSE LET key == Head(order)
         IN  IF Lookup(current, key) # desired[key]
             THEN applyDesiredLoop(Tail(order),
                                   [k \in DOMAIN current \cup {key} |->
                                       IF k = key THEN desired[key] ELSE current[k]],
                                   desired, TRUE)
             ELSE applyDesiredLoop(Tail(order), current, desired, changed)

\* the loop of detectDrift over the keys of prevApplied in the order the map
\* iteration yields them: the first key that is still desired and whose live
\* value is missing or differs from the applied value reports drift
RECURSIVE driftLoop(_, _, _, _)
driftLoop(order, live, prevApplied, desired) ==
    IF order = <<>> THEN FALSE
    ELSE LET key == Head(order)
         IN  IF /\ key \in DOMAIN desired
                /\ (key \notin DOMAIN live \/ live[key] # prevApplied[key])
             THEN TRUE
             ELSE driftLoop(Tail(order), live, prevApplied, desired)

detectDrift(live, prevApplied, desired, order) ==
    driftLoop(order, live, prevApplied, desired)

(***************************************************************************)
(* Protection configuration and filter                                     *)
(***************************************************************************)
ProtectionModeSkip == "skip"
ProtectionModeFail == "fail"

\* a reader that falls back to built-in patterns in fail mode when the
\* ConfigMap does not exist
getProtectionConfig_BuiltinDefaults(c) ==
    IF ~c.exists THEN [Patterns |-> <<PatK>>, Mode |-> ProtectionModeFail]
    ELSE [Patterns |-> c.patterns,
          Mode |-> IF c.mode \notin {ProtectionModeSkip, ProtectionModeFail}
                   THEN ProtectionModeSkip ELSE c.mode]

\* a reader that takes the strict mode when the mode string is not one it
\* knows
getProtectionConfig_UnknownIsFail(c) ==
    IF ~c.exists THEN [Patterns |-> <<>>, Mode |-> ProtectionModeSkip]
    ELSE [Patterns |-> c.patterns,
          Mode |-> IF c.mode \notin {ProtectionModeSkip, ProtectionModeFail}
                   THEN ProtectionModeFail ELSE c.mode]

getProtectionConfig(c) ==
    IF ~c.exists THEN [Patterns |-> <<>>, Mode |-> ProtectionModeSkip]
    ELSE [Patterns |-> c.patterns,
          Mode |-> IF c.mode \notin {ProtectionModeSkip, ProtectionModeFail}
                   THEN ProtectionModeSkip ELSE c.mode]

NoConflict == [key |-> <<>>, existing |-> "", attempted |-> ""]

\* the loop of filterProtectedLabels over the desired keys in the order the
\* map iteration yields them
RECURSIVE filterLoop(_, _, _, _, _, _)
filterLoop(order, desired, existing, config, allowed, skipped) ==
    IF order = <<>>
    THEN [ok |-> TRUE, allowed |-> Some(allowed), skipped |-> Some(skipped),
          conflict |-> NoConflict]
    ELSE LET key == Head(order)
             value == desired[key]
         IN  IF /\ isLabelProtected(key, config.Patterns)
                /\ key \in DOMAIN existing
                /\ existing[key] # value
             THEN IF config.Mode = ProtectionModeFail
                  THEN [ok |-> FALSE, allowed |-> None, skipped |-> None,
                        conflict |-> [key |-> key, existing |-> existing[key],
                                      attempted |-> value]]
                  ELSE filterLoop(Tail(order), desired, existing, config,
                                  allowed, Append(skipped, key))
             ELSE filterLoop(Tail(order), desired, existing, config,
                             [k \in DOMAIN allowed \cup {key} |->
                                 IF k = key THEN value ELSE allowed[k]],
                             skipped)

\* a filter that treats every protected key the namespace already carries as
\* a conflict, whatever its value
RECURSIVE filterLoop_Strict(_, _, _, _, _, _)
filterLoop_Strict(order, desired, existing, config, allowed, skipped) ==
    IF order = <<>>
    THEN [ok |-> TRUE, allowed |-> Some(allowed), skipped |-> Some(skipped),
          conflict |-> NoConflict]
    ELSE LET key == Head(order)
             value == desired[key]
         IN  IF /\ isLabelProtected(key, config.Patterns)
                /\ key \in DOMAIN existing
             THEN IF config.Mode = ProtectionModeFail
                  THEN [ok |-> FALSE, allowed |-> None, skipped |-> None,
                        conflict |-> [key |-> key, existing |-> existing[key],
                                      attempted |-> value]]
                  ELSE filterLoop_Strict(Tail(order), desired, existing, config,
                                         allowed, Append(skipped, key))
             ELSE filterLoop_Strict(Tail(order), desired, existing, config,
                                    [k \in DOMAIN allowed \cup {key} |->
                                        IF k = key THEN value ELSE allowed[k]],
                                    skipped)

filterProtectedLabels_Strict(desired, existing, config, order) ==
    filterLoop_Strict(order, desired, existing, config, EmptyMap, <<>>)

\* a filter that records a conflicting key as skipped but still lets it
\* through to the allowed map
RECURSIVE filterLoop_SkipStillAllowed(_, _, _, _, _, _)
filterLoop_SkipStillAllowed(order, desired, existing, config, allowed, skipped) ==
    IF order = <<>>
    THEN [ok |-> TRUE, allowed |-> Some(allowed), skipped |-> Some(skipped),
          conflict |-> NoConflict]
    ELSE LET key == Head(order)
             value == desired[key]
             conflicts == /\ isLabelProtected(key, config.Patterns)
                          /\ key \in DOMAIN existing
                          /\ existing[key] # value
         IN  IF conflicts /\ config.Mode = ProtectionModeFail
             THEN [ok |-> FALSE, allowed |-> None, skipped |-> None,
                   conflict |-> [key |-> key, existing |-> existing[key],
                                 attempted |-> value]]
             ELSE filterLoop_SkipStillAllowed(
                      Tail(order), desired, existing, config,
                      [k \in DOMAIN allowed \cup {key} |->
                          IF k = key THEN value ELSE allowed[k]],
                      IF conflicts THEN Append(skipped, key) ELSE skipped)

filterProtectedLabels_SkipStillAllowed(desired, existing, config, order) ==
    filterLoop_SkipStillAllowed(order, desired, existing, config, EmptyMap, <<>>)

\* a filter that in fail mode returns the error together with what it had
\* allowed and skipped before the conflict
RECURSIVE filterLoop_PartialOnFail(_, _, _, _, _, _)
filterLoop_PartialOnFail(order, desired, existing, config, allowed, skipped) ==
    IF order = <<>>
    THEN [ok |-> TRUE, allowed |-> Some(allowed), skipped |-> Some(skipped),
          conflict |-> NoConflict]
    ELSE LET key == Head(order)
             value == desired[key]
         IN  IF /\ isLabelProtected(key, config.Patterns)
                /\ key \in DOMAIN existing
                /\ existing[key] # value
             THEN IF config.Mode = ProtectionModeFail
                  THEN [ok |-> FALSE, allowed |-> Some(allowed),
                        skipped |-> Some(skipped),
                        conflict |-> [key |-> key, existing |-> existing[key],
                                      attempted |-> value]]
                  ELSE filterLoop_PartialOnFail(Tail(order), desired, existing,
                                                config, allowed,
                                                Append(skipped, key))
             ELSE filterLoop_PartialOnFail(
                      Tail(order), desired, existing, config,
                      [k \in DOMAIN allowed \cup {key} |->
                          IF k = key THEN value ELSE allowed[k]],
                      skipped)

filterProtectedLabels_PartialOnFail(desired, existing, config, order) ==
    filterLoop_PartialOnFail(order, desired, existing, config, EmptyMap, <<>>)

filterProtectedLabels(desired, existing, config, order) ==
    filterLoop(order, desired, existing, config, EmptyMap, <<>>)

(***************************************************************************)
(* Status                                                                  *)
(***************************************************************************)
NoMessage == [applied |-> 0, total |-> 0, skipped |-> <<>>, conflict |-> NoConflict]

SyncedMessage(desired, allowed, skipped) ==
    [applied |-> Cardinality(DOMAIN allowed), total |-> Cardinality(DOMAIN desired),
     skipped |-> skipped, conflict |-> NoConflict]

ProtectionMessage(conflict) ==
    [applied |-> 0, total |-> 0, skipped |-> <<>>, conflict |-> conflict]

\* an update that appends its condition whatever the list holds
upsertReady_Append(conds, cond) == Append(conds, cond)

RECURSIVE upsertReady(_, _)
upsertReady(conds, cond) ==
    IF conds = <<>> THEN <<cond>>
    ELSE IF Head(conds).type = "Ready" THEN <<cond>> \o Tail(conds)
    ELSE <<Head(conds)>> \o upsertReady(Tail(conds), cond)

updateStatus(c, ok, reason, msg) ==
    LET cond == [type |-> "Ready", status |-> ok, reason |-> reason, message |-> msg]
    IN  [c EXCEPT !.status.applied = ok,
                  !.status.conditions = upsertReady(c.status.conditions, cond)]

getAppliedLabels(c) ==
    IF c.status.appliedLabels = None THEN EmptyMap ELSE c.status.appliedLabels[1]

(***************************************************************************)
(* Objects                                                                 *)
(***************************************************************************)
ZeroStatus == [applied |-> FALSE, appliedLabels |-> None, conditions |-> <<>>]

\* the zero-valued NamespaceLabel that Get leaves behind on NotFound;
\* finalizer is the presence of FinalizerName in metadata.finalizers,
\* otherFinalizers that of any other entry
NoCR == [exists |-> FALSE, finalizer |-> FALSE, otherFinalizers |-> FALSE,
         deleting |-> FALSE, spec |-> EmptyMap, status |-> ZeroStatus]

NewCR(labels) == [NoCR EXCEPT !.exists = TRUE, !.spec = labels]

NoNS == [exists |-> FALSE, labels |-> EmptyMap]

NoCM == [exists |-> FALSE, patterns |-> <<>>, mode |-> ProtectionModeSkip]

ConfigChoices ==
    {NoCM} \cup {[exists |-> TRUE, patterns |-> <<PatK>>, mode |-> m] :
                    m \in {ProtectionModeSkip, ProtectionModeFail, "warn"}}

\* requeue delays, in minutes
RequeueProtectionError == 5
RequeueTeardown == 1

Failures == [ns : BOOLEAN, status : BOOLEAN, cr : BOOLEAN]

NoPass ==
    [kind |-> "none", n |-> 0, req |-> "", requested |-> FALSE, hadFinalizer |-> FALSE, nsFound |-> FALSE,
     before |-> EmptyMap, prevApplied |-> EmptyMap, desired |-> EmptyMap,
     config |-> getProtectionConfig(NoCM), allowed |-> None, skipped |-> None,
     nsWrite |-> "none", statusWrite |-> "none", crWrite |-> "none",
     err |-> "nil", requeueAfter |-> 0]

Written(failed) == IF failed THEN "failed" ELSE "ok"

(***************************************************************************)
(* Reconcile (namespacelabel_controller.go 320-405) and finalize (407-449) *)
(* as functions of the objects read, the map iteration order and the       *)
(* writes the store rejects.  Each yields the objects as stored after the  *)
(* pass and the record of what the pass did.                               *)
(***************************************************************************)
PassOf(kind, c, n) ==
    [NoPass EXCEPT !.kind = kind, !.hadFinalizer = c.finalizer,
                   !.nsFound = n.exists, !.before = n.labels,
                   !.prevApplied = getAppliedLabels(c), !.desired = c.spec]

\* Update of a resource whose finalizer list became empty while its deletion
\* marker is set: the store removes the object
Stored(c) ==
    IF c.deleting /\ ~c.finalizer /\ ~c.otherFinalizers THEN NoCR ELSE c

\* lines 334-342: attach the finalizer, persist, stop
addFinalizer(c, n, f) ==
    [cr |-> IF f.cr THEN c ELSE [c EXCEPT !.finalizer = TRUE],
     ns |-> n,
     pass |-> [PassOf("new", c, n) EXCEPT
                 !.crWrite = Written(f.cr),
                 !.err = IF f.cr THEN "update" ELSE "nil"]]

\* the not-found branch reporting the failure in the resource's status
\* before it returns
namespaceMissing_ReportsStatus(c, n) ==
    [cr |-> IF c.exists
            THEN [c EXCEPT !.status = updateStatus(c, FALSE, "NamespaceNotFound",
                                                   NoMessage).status]
            ELSE c,
     ns |-> n,
     pass |-> [PassOf(IF c.exists THEN "active" ELSE "absent", c, n) EXCEPT
                 !.statusWrite = IF c.exists THEN "ok" ELSE "none",
                 !.err = "notfound"]]

\* lines 346-349: the target namespace is not found
namespaceMissing(c, n) ==
    [cr |-> c, ns |-> n,
     pass |-> [PassOf(IF c.exists THEN "active" ELSE "absent", c, n) EXCEPT
                 !.err = "notfound"]]

\* protectionFailed that still removes the stale labels and applies the
\* desired labels that do not conflict
protectionFailed_Partial(c, n, config, flt, f) ==
    LET current == updateStatus(c, FALSE, "ProtectionError",
                                ProtectionMessage(flt.conflict))
        safe == Restrict(c.spec, {k \in DOMAIN c.spec :
                    ~(/\ isLabelProtected(k, config.Patterns)
                      /\ k \in DOMAIN n.labels
                      /\ n.labels[k] # c.spec[k])})
        r == applyLabelsToNamespace(n.labels, safe, getAppliedLabels(c))
    IN  [cr |-> IF f.status THEN c ELSE [c EXCEPT !.status = current.status],
         ns |-> [n EXCEPT !.labels = r.labels],
         pass |-> [PassOf("active", c, n) EXCEPT
                     !.config = config,
                     !.nsWrite = IF r.changed THEN "ok" ELSE "none",
                     !.statusWrite = Written(f.status),
                     !.err = "protection",
                     !.requeueAfter = RequeueProtectionError]]

\* the protection-error branch adding its condition without touching
\* status.applied
protectionFailed_KeepsApplied(c, n, config, flt, f) ==
    LET current == updateStatus(c, FALSE, "ProtectionError",
                                ProtectionMessage(flt.conflict))
    IN  [cr |-> IF f.status THEN c
                ELSE [c EXCEPT !.status.conditions = current.status.conditions],
         ns |-> n,
         pass |-> [PassOf("active", c, n) EXCEPT
                     !.config = config,
                     !.statusWrite = Written(f.status),
                     !.err = "protection",
                     !.requeueAfter = RequeueProtectionError]]

\* lines 365-371: the filter returned a protection error
protectionFailed(c, n, config, flt, f) ==
    LET current == updateStatus(c, FALSE, "ProtectionError",
                                ProtectionMessage(flt.conflict))
    IN  [cr |-> IF f.status THEN c ELSE [c EXCEPT !.status = current.status],
         ns |-> n,
         pass |-> [PassOf("active", c, n) EXCEPT
                     !.config = config,
                     !.statusWrite = Written(f.status),
                     !.err = "protection",
                     !.requeueAfter = RequeueProtectionError]]

\* syncLabels that records the whole desired map as the applied-set
syncLabels_RecordsDesired(c, n, config, flt, f) ==
    LET allowedLabels == flt.allowed[1]
        skippedLabels == flt.skipped[1]
        prevApplied == getAppliedLabels(c)
        r == applyLabelsToNamespace(n.labels, allowedLabels, prevApplied)
        nsFailed == r.changed /\ f.ns
        withApplied == [c EXCEPT !.status.appliedLabels = Some(c.spec)]
        current == updateStatus(withApplied, TRUE, "Synced",
                                SyncedMessage(c.spec, allowedLabels, skippedLabels))
        base == [PassOf(IF c.exists THEN "active" ELSE "absent", c, n) EXCEPT
                   !.config = config, !.allowed = flt.allowed,
                   !.skipped = flt.skipped]
    IN  IF nsFailed
        THEN [cr |-> c, ns |-> n,
              pass |-> [base EXCEPT !.nsWrite = "failed", !.err = "update"]]
        ELSE [cr |-> IF c.exists /\ ~f.status
                     THEN [c EXCEPT !.status = current.status] ELSE c,
              ns |-> [n EXCEPT !.labels = r.labels],
              pass |-> [base EXCEPT
                          !.nsWrite = IF r.changed THEN "ok" ELSE "none",
                          !.statusWrite = IF c.exists THEN Written(f.status)
                                          ELSE "none"]]

\* lines 373-404: apply the allowed labels, remove the stale ones, report
syncLabels(c, n, config, flt, f) ==
    LET allowedLabels == flt.allowed[1]
        skippedLabels == flt.skipped[1]
        prevApplied == getAppliedLabels(c)
        r == applyLabelsToNamespace(n.labels, allowedLabels, prevApplied)
        nsFailed == r.changed /\ f.ns
        withApplied == [c EXCEPT !.status.appliedLabels = Some(allowedLabels)]
        current == updateStatus(withApplied, TRUE, "Synced",
                                SyncedMessage(c.spec, allowedLabels, skippedLabels))
        base == [PassOf(IF c.exists THEN "active" ELSE "absent", c, n) EXCEPT
                   !.config = config, !.allowed = flt.allowed,
                   !.skipped = flt.skipped]
    IN  IF nsFailed
        THEN [cr |-> c, ns |-> n,
              pass |-> [base EXCEPT !.nsWrite = "failed", !.err = "update"]]
        ELSE [cr |-> IF c.exists /\ ~f.status
                     THEN [c EXCEPT !.status = current.status] ELSE c,
              ns |-> [n EXCEPT !.labels = r.labels],
              pass |-> [base EXCEPT
                          !.nsWrite = IF r.changed THEN "ok" ELSE "none",
                          !.statusWrite = IF c.exists THEN Written(f.status)
                                          ELSE "none"]]

\* finalize that passes the spec labels as desired instead of an empty map
finalize_KeepDesired(c, n, f) ==
    LET cleared == IF f.status THEN c
                   ELSE [c EXCEPT !.status.appliedLabels = Some(EmptyMap)]
        released == IF f.cr THEN cleared
                    ELSE Stored([cleared EXCEPT !.finalizer = FALSE])
        prevApplied == getAppliedLabels(c)
        r == removeStaleLabels(n.labels, c.spec, prevApplied)
        base == PassOf("terminating", c, n)
        done == [base EXCEPT !.statusWrite = Written(f.status),
                             !.crWrite = Written(f.cr),
                             !.err = IF f.cr THEN "update" ELSE "nil"]
    IN  IF ~n.exists
        THEN [cr |-> released, ns |-> n, pass |-> done]
        ELSE IF r.changed /\ f.ns
        THEN [cr |-> c, ns |-> n,
              pass |-> [base EXCEPT !.nsWrite = "failed",
                                    !.requeueAfter = RequeueTeardown]]
        ELSE [cr |-> released,
              ns |-> [n EXCEPT !.labels = r.labels],
              pass |-> [done EXCEPT
                          !.nsWrite = IF r.changed THEN "ok" ELSE "none"]]

\* finalize that returns the not-found error of the namespace read
finalize_NotFoundIsError(c, n, f) ==
    LET cleared == IF f.status THEN c
                   ELSE [c EXCEPT !.status.appliedLabels = Some(EmptyMap)]
        released == IF f.cr THEN cleared
                    ELSE Stored([cleared EXCEPT !.finalizer = FALSE])
        prevApplied == getAppliedLabels(c)
        r == applyLabelsToNamespace(n.labels, EmptyMap, prevApplied)
        base == PassOf("terminating", c, n)
        done == [base EXCEPT !.statusWrite = Written(f.status),
                             !.crWrite = Written(f.cr),
                             !.err = IF f.cr THEN "update" ELSE "nil"]
    IN  IF ~n.exists
        THEN [cr |-> c, ns |-> n, pass |-> [base EXCEPT !.err = "notfound"]]
        ELSE IF r.changed /\ f.ns
        THEN [cr |-> c, ns |-> n,
              pass |-> [base EXCEPT !.nsWrite = "failed",
                                    !.requeueAfter = RequeueTeardown]]
        ELSE [cr |-> released,
              ns |-> [n EXCEPT !.labels = r.labels],
              pass |-> [done EXCEPT
                          !.nsWrite = IF r.changed THEN "ok" ELSE "none"]]

\* finalize that logs a rejected namespace update and carries on
finalize_IgnoreNsError(c, n, f) ==
    LET cleared == IF f.status THEN c
                   ELSE [c EXCEPT !.status.appliedLabels = Some(EmptyMap)]
        released == IF f.cr THEN cleared
                    ELSE Stored([cleared EXCEPT !.finalizer = FALSE])
        prevApplied == getAppliedLabels(c)
        r == applyLabelsToNamespace(n.labels, EmptyMap, prevApplied)
        base == PassOf("terminating", c, n)
        done == [base EXCEPT !.statusWrite = Written(f.status),
                             !.crWrite = Written(f.cr),
                             !.err = IF f.cr THEN "update" ELSE "nil"]
    IN  IF ~n.exists
        THEN [cr |-> released, ns |-> n, pass |-> done]
        ELSE IF r.changed /\ f.ns
        THEN [cr |-> released, ns |-> n,
              pass |-> [done EXCEPT !.nsWrite = "failed"]]
        ELSE [cr |-> released,
              ns |-> [n EXCEPT !.labels = r.labels],
              pass |-> [done EXCEPT
                          !.nsWrite = IF r.changed THEN "ok" ELSE "none"]]

\* finalize that releases the resource without cleaning the namespace
finalize_SkipCleanup(c, n, f) ==
    LET cleared == IF f.status THEN c
                   ELSE [c EXCEPT !.status.appliedLabels = Some(EmptyMap)]
        released == IF f.cr THEN cleared
                    ELSE Stored([cleared EXCEPT !.finalizer = FALSE])
        done == [PassOf("terminating", c, n) EXCEPT
                             !.statusWrite = Written(f.status),
                             !.crWrite = Written(f.cr),
                             !.err = IF f.cr THEN "update" ELSE "nil"]
    IN  [cr |-> released, ns |-> n, pass |-> done]

\* finalize that returns plain success after a rejected namespace update
finalize_NoRequeue(c, n, f) ==
    LET cleared == IF f.status THEN c
                   ELSE [c EXCEPT !.status.appliedLabels = Some(EmptyMap)]
        released == IF f.cr THEN cleared
                    ELSE Stored([cleared EXCEPT !.finalizer = FALSE])
        prevApplied == getAppliedLabels(c)
        r == applyLabelsToNamespace(n.labels, EmptyMap, prevApplied)
        base == PassOf("terminating", c, n)
        done == [base EXCEPT !.statusWrite = Written(f.status),
                             !.crWrite = Written(f.cr),
                             !.err = IF f.cr THEN "update" ELSE "nil"]
    IN  IF ~n.exists
        THEN [cr |-> released, ns |-> n, pass |-> done]
        ELSE IF r.changed /\ f.ns
        THEN [cr |-> c, ns |-> n, pass |-> [base EXCEPT !.nsWrite = "failed"]]
        ELSE [cr |-> released,
              ns |-> [n EXCEPT !.labels = r.labels],
              pass |-> [done EXCEPT
                          !.nsWrite = IF r.changed THEN "ok" ELSE "none"]]

\* lines 407-449
finalize(c, n, f) ==
    LET cleared == IF f.status THEN c
                   ELSE [c EXCEPT !.status.appliedLabels = Some(EmptyMap)]
        released == IF f.cr THEN cleared
                    ELSE Stored([cleared EXCEPT !.finalizer = FALSE])
        prevApplied == getAppliedLabels(c)
        r == applyLabelsToNamespace(n.labels, EmptyMap, prevApplied)
        base == PassOf("terminating", c, n)
        done == [base EXCEPT !.statusWrite = Written(f.status),
                             !.crWrite = Written(f.cr),
                             !.err = IF f.cr THEN "update" ELSE "nil"]
    IN  IF ~n.exists
        THEN [cr |-> released, ns |-> n, pass |-> done]
        ELSE IF r.changed /\ f.ns
        THEN [cr |-> c, ns |-> n,
              pass |-> [base EXCEPT !.nsWrite = "failed",
                                    !.requeueAfter = RequeueTeardown]]
        ELSE [cr |-> released,
              ns |-> [n EXCEPT !.labels = r.labels],
              pass |-> [done EXCEPT
                          !.nsWrite = IF r.changed THEN "ok" ELSE "none"]]

\* Reconcile that looks for its finalizer before it looks at the deletion
\* marker
ReconcileOutcome_FinalizerFirst(c, n, m, order, f) ==
    IF c.exists /\ ~c.finalizer THEN addFinalizer(c, n, f)
    ELSE IF c.exists /\ c.deleting THEN finalize(c, n, f)
    ELSE IF ~n.exists THEN namespaceMissing(c, n)
    ELSE LET config == getProtectionConfig(m)
             flt == filterProtectedLabels(c.spec, n.labels, config, order)
         IN  IF ~flt.ok THEN protectionFailed(c, n, config, flt, f)
             ELSE syncLabels(c, n, config, flt, f)

\* Reconcile that goes on to the sync in the pass that adds the finalizer
ReconcileOutcome_NoStop(c, n, m, order, f) ==
    IF c.exists /\ c.deleting THEN finalize(c, n, f)
    ELSE IF c.exists /\ ~c.finalizer /\ f.cr THEN addFinalizer(c, n, f)
    ELSE IF ~n.exists THEN namespaceMissing(c, n)
    ELSE LET config == getProtectionConfig(m)
             flt == filterProtectedLabels(c.spec, n.labels, config, order)
             out == IF ~flt.ok THEN protectionFailed(c, n, config, flt, f)
                    ELSE syncLabels(c, n, config, flt, f)
         IN  [out EXCEPT !.cr.finalizer = c.exists]

ReconcileOutcome(c, n, m, order, f) ==
    IF c.exists /\ c.deleting THEN finalize(c, n, f)
    ELSE IF c.exists /\ ~c.finalizer THEN addFinalizer(c, n, f)
    ELSE IF ~n.exists THEN namespaceMissing(c, n)
    ELSE LET config == getProtectionConfig(m)
             flt == filterProtectedLabels(c.spec, n.labels, config, order)
         IN  IF ~flt.ok THEN protectionFailed(c, n, config, flt, f)
             ELSE syncLabels(c, n, config, flt, f)

(***************************************************************************)
(* State machine                                                           *)
(***************************************************************************)
FnIdle == [op |-> "idle", current |-> EmptyMap, desired |-> EmptyMap,
           prevApplied |-> EmptyMap, labels |-> EmptyMap, changed |-> FALSE,
           config |-> [Patterns |-> <<>>, Mode |-> ProtectionModeSkip],
           ok |-> TRUE, allowed |-> None, skipped |-> None,
           conflict |-> NoConflict,
           calls |-> 0, statusOk |-> FALSE, reason |-> "",
           message |-> NoMessage,
           key |-> <<>>, patterns |-> <<>>, protected |-> FALSE,
           drift |-> FALSE,
           stale |-> [labels |-> EmptyMap, changed |-> FALSE],
           set |-> [labels |-> EmptyMap, changed |-> FALSE]]

\* the two namespaces of the store; requests are named by the namespace of
\* the resource (its name is the fixed StandardCRName)
Main == "main"
Peer == "peer"
Namespaces == {Main, Peer}

NoPeer == [cr |-> NoCR, ns |-> NoNS]

\* the admission webhook's view: the NamespaceLabel objects of the store by
\* namespace and name, the creates admitted and not yet persisted, and the
\* last decision
NoDecision ==
    [op |-> "none", namespace |-> "", name |-> "", existing |-> 0,
     listed |-> 0, listOk |-> TRUE, admitted |-> FALSE]
NoHook == [store |-> {}, cache |-> {}, pending |-> {}, last |-> NoDecision]

Init ==
    /\ cr = NoCR
    /\ ns \in {[exists |-> TRUE, labels |-> l] : l \in LabelMaps}
    /\ cm \in ConfigChoices
    /\ edits = 0
    /\ lastPass = NoPass
    /\ fn = FnIdle
    /\ peer = NoPeer
    /\ hook = NoHook

\* Get by name
ResourceAt(name) == IF name = Main THEN cr ELSE peer.cr
NamespaceAt(name) == IF name = Main THEN ns ELSE peer.ns

\* a target fixed to one namespace instead of the request's own
targetNS_Fixed(req) == Main

\* targetNS := req.Namespace (line 344), cr.Namespace in finalize (line 410)
targetNS(req) == req

\* a queue that the controller's own writes of the resource do not feed
Requeues_ErrorsOnly(p) ==
    \/ p.err # "nil"
    \/ p.requeueAfter > 0

\* the pass leaves a request in the queue: it returned an error or asked
\* for a requeue, or it wrote the watched resource
Requeues(p) ==
    \/ p.err # "nil"
    \/ p.requeueAfter > 0
    \/ p.crWrite = "ok"
    \/ p.statusWrite = "ok"

\* one pass of Reconcile for request req, the store rejecting the writes f
Pass(req, f) ==
    \E order \in Perms(DOMAIN ResourceAt(req).spec) :
      \E out \in {ReconcileOutcome(ResourceAt(req), NamespaceAt(targetNS(req)),
                                   cm, order, f)} :
        /\ cr' = IF req = Main THEN out.cr ELSE cr
        /\ ns' = IF targetNS(req) = Main THEN out.ns ELSE ns
        /\ peer' = [cr |-> IF req = Peer THEN out.cr ELSE peer.cr,
                    ns |-> IF targetNS(req) = Peer THEN out.ns ELSE peer.ns]
        /\ lastPass' = [out.pass EXCEPT !.req = req,
                           !.requested = Requeues(out.pass),
                           !.n = IF lastPass.n < MaxRun
                                 THEN lastPass.n + 1 ELSE MaxRun]
        /\ UNCHANGED <<cm, edits, fn, hook>>

\* a reconciliation request for the resource is delivered and handled
Reconcile ==
    /\ lastPass.n < MaxRun
    /\ \E f \in Failures : Pass(Main, f)

\* an edit made by a user or another controller; an edit of the resource
\* itself (the only kind the controller watches, lines 314-318) queues a
\* request, any other edit leaves the queue as it is
External(watched) ==
    /\ edits < MaxEdits
    /\ edits' = edits + 1
    /\ lastPass' = [NoPass EXCEPT !.requested = watched \/ lastPass.requested]
    /\ UNCHANGED <<fn, peer, hook>>

CreateCR ==
    /\ External(TRUE)
    /\ ~cr.exists
    /\ ns.exists
    /\ \E labels \in LabelMaps : cr' = NewCR(labels)
    /\ UNCHANGED <<ns, cm>>

UpdateSpec ==
    /\ External(TRUE)
    /\ cr.exists
    /\ \E labels \in LabelMaps \ {cr.spec} : cr' = [cr EXCEPT !.spec = labels]
    /\ UNCHANGED <<ns, cm>>

DeleteCR ==
    /\ External(TRUE)
    /\ cr.exists
    /\ ~cr.deleting
    /\ cr' = Stored([cr EXCEPT !.deleting = TRUE])
    /\ UNCHANGED <<ns, cm>>

EditNamespaceLabel ==
    /\ External(FALSE)
    /\ ns.exists
    /\ \E k \in Keys, v \in Values :
          /\ Lookup(ns.labels, k) # v
          /\ ns' = [ns EXCEPT !.labels = [x \in DOMAIN ns.labels \cup {k} |->
                                             IF x = k THEN v ELSE ns.labels[x]]]
    /\ UNCHANGED <<cr, cm>>

RemoveNamespaceLabel ==
    /\ External(FALSE)
    /\ ns.exists
    /\ \E k \in DOMAIN ns.labels :
          ns' = [ns EXCEPT !.labels = Restrict(ns.labels, DOMAIN ns.labels \ {k})]
    /\ UNCHANGED <<cr, cm>>

DeleteNamespace ==
    /\ External(FALSE)
    /\ ns.exists
    /\ ns' = NoNS
    /\ UNCHANGED <<cr, cm>>

CreateNamespace ==
    /\ External(FALSE)
    /\ ~ns.exists
    /\ \E l \in LabelMaps : ns' = [exists |-> TRUE, labels |-> l]
    /\ UNCHANGED <<cr, cm>>

SetConfig ==
    /\ External(FALSE)
    /\ \E c \in ConfigChoices \ {cm} : cm' = c
    /\ UNCHANGED <<cr, ns>>

Next ==
    \/ Reconcile
    \/ CreateCR
    \/ UpdateSpec
    \/ DeleteCR
    \/ EditNamespaceLabel
    \/ RemoveNamespaceLabel
    \/ DeleteNamespace
    \/ CreateNamespace
    \/ SetConfig

Spec == Init /\ [][Next]_vars

(***************************************************************************)
(* Two namespaces, each with its own resource instance: requests for       *)
(* either are handled in any order, between deletions of the instances    *)
(* and edits of the peer namespace's labels.                               *)
(***************************************************************************)
\* both instances carry their finalizer and have not been synced yet
IsoSpecs == {l \in LabelMapsOver(Keys, {"1"}) : KeyA \in DOMAIN l}
IsoLabels == LabelMapsOver({KeyP}, {"2"})

InitIso ==
    /\ cr \in {[NewCR(l) EXCEPT !.finalizer = TRUE] : l \in IsoSpecs}
    /\ ns \in {[exists |-> TRUE, labels |-> l] : l \in IsoLabels}
    /\ peer \in {[cr |-> [NewCR(s) EXCEPT !.finalizer = TRUE],
                   ns |-> [exists |-> TRUE, labels |-> l]] :
                   s \in IsoSpecs, l \in IsoLabels}
    /\ cm \in {NoCM, [exists |-> TRUE, patterns |-> <<PatK>>,
                      mode |-> ProtectionModeSkip]}
    /\ edits = 0
    /\ lastPass = [NoPass EXCEPT !.requested = TRUE]
    /\ fn = FnIdle
    /\ hook = NoHook

\* a request for the resource of either namespace is delivered and handled
ReconcileAt ==
    /\ lastPass.n < MaxRun
    /\ \E req \in Namespaces, f \in Failures : Pass(req, f)

PeerExternal(watched) ==
    /\ edits < MaxEdits
    /\ edits' = edits + 1
    /\ lastPass' = [NoPass EXCEPT !.requested = watched \/ lastPass.requested]
    /\ UNCHANGED <<fn, cr, ns, cm, hook>>

PeerDeleteCR ==
    /\ PeerExternal(TRUE)
    /\ peer.cr.exists
    /\ ~peer.cr.deleting
    /\ peer' = [peer EXCEPT !.cr = Stored([peer.cr EXCEPT !.deleting = TRUE])]

PeerEditNamespaceLabel ==
    /\ PeerExternal(FALSE)
    /\ peer.ns.exists
    /\ \E k \in Keys, v \in Values :
          /\ Lookup(peer.ns.labels, k) # v
          /\ peer' = [peer EXCEPT !.ns.labels =
                        [x \in DOMAIN peer.ns.labels \cup {k} |->
                            IF x = k THEN v ELSE peer.ns.labels[x]]]

NextIso ==
    \/ ReconcileAt
    \/ DeleteCR
    \/ PeerDeleteCR
    \/ PeerEditNamespaceLabel

SpecIso == InitIso /\ [][NextIso]_vars

(***************************************************************************)
(* The controller's work queue: a pass runs when a request is queued, and  *)
(* a queued request is eventually handled by a pass whose writes the store *)
(* accepts.  The runs start from a resource that carries its finalizer,    *)
(* with any recorded applied-set, next to any namespace (or none).         *)
(***************************************************************************)
AllAccepted == [ns |-> FALSE, status |-> FALSE, cr |-> FALSE]

InitLive ==
    /\ \E labels \in LabelMaps, applied \in {None} \cup {Some(l) : l \in LabelMaps} :
          cr = [NewCR(labels) EXCEPT !.finalizer = TRUE,
                                     !.status.appliedLabels = applied]
    /\ ns \in {NoNS} \cup {[exists |-> TRUE, labels |-> l] : l \in LabelMaps}
    /\ cm = NoCM
    /\ edits = 0
    /\ lastPass = [NoPass EXCEPT !.requested = TRUE]
    /\ fn = FnIdle
    /\ peer = NoPeer
    /\ hook = NoHook

Deliver ==
    /\ lastPass.requested
    /\ \E f \in Failures : Pass(Main, f)

DeliverAccepted ==
    /\ lastPass.requested
    /\ Pass(Main, AllAccepted)

NextLive ==
    \/ Deliver
    \/ DeleteCR
    \/ DeleteNamespace

SpecLive == InitLive /\ [][NextLive]_vars /\ WF_vars(DeliverAccepted)

(***************************************************************************)
(* The label set algebra on its own: the inputs are drawn in the initial   *)
(* state and one call is applied to them.                                  *)
(***************************************************************************)
FnValues == {"", "1", "2"}
FnMaps == LabelMapsOver(Keys, FnValues)

InitFn ==
    /\ cr = NoCR
    /\ ns = NoNS
    /\ cm = NoCM
    /\ edits = 0
    /\ lastPass = NoPass
    /\ fn \in {[FnIdle EXCEPT !.current = c, !.desired = d, !.prevApplied = p] :
                  c \in FnMaps, d \in FnMaps, p \in FnMaps}
    /\ peer = NoPeer
    /\ hook = NoHook

CallRemoveStaleLabels ==
    /\ fn.op = "idle"
    /\ LET r == removeStaleLabels(fn.current, fn.desired, fn.prevApplied)
       IN  fn' = [fn EXCEPT !.op = "removeStaleLabels",
                            !.labels = r.labels, !.changed = r.changed]
    /\ UNCHANGED <<cr, ns, cm, edits, lastPass, peer, hook>>

\* protection configurations: no pattern, one pattern, and two patterns that
\* between them match every key; the modes the ConfigMap may name
FnPatterns == {<<>>, <<PatK>>, <<<<"*">>, PatK>>}
FnModes == {ProtectionModeSkip, ProtectionModeFail, "warn"}

\* one call of filterProtectedLabels on the drawn desired map, with the drawn
\* current map as the existing labels
CallFilterProtectedLabels ==
    /\ fn.op = "idle"
    /\ \E patterns \in FnPatterns, mode \in FnModes,
          order \in Perms(DOMAIN fn.desired) :
          LET config == [Patterns |-> patterns, Mode |-> mode]
              r == filterProtectedLabels(fn.desired, fn.current, config, order)
          IN  fn' = [fn EXCEPT !.op = "filterProtectedLabels",
                               !.config = config, !.ok = r.ok,
                               !.allowed = r.allowed, !.skipped = r.skipped,
                               !.conflict = r.conflict]
    /\ UNCHANGED <<cr, ns, cm, edits, lastPass, peer, hook>>

\* one call of applyDesiredLabels on the drawn current and desired maps
CallApplyDesiredLabels ==
    /\ fn.op = "idle"
    /\ LET r == applyDesiredLabels(fn.current, fn.desired)
       IN  fn' = [fn EXCEPT !.op = "applyDesiredLabels",
                            !.labels = r.labels, !.changed = r.changed]
    /\ UNCHANGED <<cr, ns, cm, edits, lastPass, peer, hook>>

\* the drift report and the label algebra of one pass on the drawn maps
CallDetectDrift ==
    /\ fn.op = "idle"
    /\ \E order \in Perms(DOMAIN fn.prevApplied) :
          LET r == applyLabelsToNamespace(fn.current, fn.desired, fn.prevApplied)
          IN  fn' = [fn EXCEPT !.op = "detectDrift",
                               !.drift = detectDrift(fn.current, fn.prevApplied,
                                                     fn.desired, order),
                               !.labels = r.labels, !.changed = r.changed]
    /\ UNCHANGED <<cr, ns, cm, edits, lastPass, peer, hook>>

\* the three operations, each with an iteration order of its own over the
\* map it ranges over
CallInOrder ==
    /\ fn.op = "idle"
    /\ \E patterns \in FnPatterns, mode \in FnModes,
          filterOrder \in Perms(DOMAIN fn.desired),
          staleOrder \in Perms(DOMAIN fn.prevApplied),
          applyOrder \in Perms(DOMAIN fn.desired) :
          LET config == [Patterns |-> patterns, Mode |-> mode]
              r == filterProtectedLabels(fn.desired, fn.current, config, filterOrder)
          IN  fn' = [fn EXCEPT
                       !.op = "inOrder",
                       !.config = config, !.ok = r.ok,
                       !.allowed = r.allowed, !.skipped = r.skipped,
                       !.conflict = r.conflict,
                       !.stale = removeStaleLoop(staleOrder, fn.current, fn.desired,
                                                 fn.prevApplied, FALSE),
                       !.set = applyDesiredLoop(applyOrder, fn.current, fn.desired,
                                                FALSE)]
    /\ UNCHANGED <<cr, ns, cm, edits, lastPass, peer, hook>>

NextFn ==
    \/ CallInOrder
    \/ CallRemoveStaleLabels
    \/ CallFilterProtectedLabels
    \/ CallApplyDesiredLabels
    \/ CallDetectDrift

SpecFn == InitFn /\ [][NextFn]_vars

(***************************************************************************)
(* isLabelProtected on its own: one call on a label key and a list of at   *)
(* most two patterns, among them the empty pattern, malformed patterns,    *)
(* double wildcards and literals.                                          *)
(***************************************************************************)
MatchKeys ==
    {<<"a">>, <<"k">>, <<"k", "a">>, KeyP, <<"a", "/", "k", "/", "p">>}

MatchPatterns ==
    {<<>>, <<"*">>, <<"*", "*">>, PatK, <<"k", "*">>, <<"k">>, <<"a">>,
     <<"?">>, <<"[">>, <<"[", "a", "]">>, <<"k", "[">>,
     <<"*", "*", "/", "*">>, <<"k", "/", "*", "*", "*">>}

MatchPatternLists ==
    {<<>>} \cup {<<p>> : p \in MatchPatterns}
           \cup {<<p, q>> : p \in MatchPatterns, q \in MatchPatterns}

InitMatch ==
    /\ cr = NoCR
    /\ ns = NoNS
    /\ cm = NoCM
    /\ edits = 0
    /\ lastPass = NoPass
    /\ fn = FnIdle
    /\ peer = NoPeer
    /\ hook = NoHook

CallIsLabelProtected ==
    /\ fn.op = "idle"
    /\ \E key \in MatchKeys, patterns \in MatchPatternLists :
          fn' = [fn EXCEPT !.op = "isLabelProtected", !.key = key,
                           !.patterns = patterns,
                           !.protected = isLabelProtected(key, patterns)]
    /\ UNCHANGED <<cr, ns, cm, edits, lastPass, peer, hook>>

NextMatch == CallIsLabelProtected

SpecMatch == InitMatch /\ [][NextMatch]_vars

(***************************************************************************)
(* updateStatus on its own: a resource whose status holds no condition, a  *)
(* Ready condition, a condition of another type, or both, receives a       *)
(* sequence of calls.                                                      *)
(***************************************************************************)
MaxCalls == 3

OtherCondition ==
    [type |-> "Progressing", status |-> TRUE, reason |-> "Started",
     message |-> NoMessage]

OldReady ==
    [type |-> "Ready", status |-> TRUE, reason |-> "Synced",
     message |-> [NoMessage EXCEPT !.applied = 2, !.total = 2]]

StatusReasons == {"Synced", "ProtectionError", "InvalidName"}
StatusMessages ==
    {NoMessage, [NoMessage EXCEPT !.applied = 1, !.total = 1],
     [NoMessage EXCEPT !.applied = 1, !.total = 2, !.skipped = <<KeyP>>]}

InitStatus ==
    /\ \E conds \in {<<>>, <<OtherCondition>>, <<OldReady>>,
                      <<OtherCondition, OldReady>>, <<OldReady, OtherCondition>>},
          applied \in BOOLEAN :
          cr = [NewCR(EmptyMap) EXCEPT !.finalizer = TRUE,
                                       !.status.applied = applied,
                                       !.status.conditions = conds]
    /\ ns = NoNS
    /\ cm = NoCM
    /\ edits = 0
    /\ lastPass = NoPass
    /\ fn = FnIdle
    /\ peer = NoPeer
    /\ hook = NoHook

CallUpdateStatus ==
    /\ fn.op \in {"idle", "updateStatus"}
    /\ fn.calls < MaxCalls
    /\ \E ok \in BOOLEAN, reason \in StatusReasons, msg \in StatusMessages :
          /\ cr' = updateStatus(cr, ok, reason, msg)
          /\ fn' = [fn EXCEPT !.op = "updateStatus", !.calls = fn.calls + 1,
                               !.statusOk = ok, !.reason = reason,
                               !.message = msg]
    /\ UNCHANGED <<ns, cm, edits, lastPass, peer, hook>>

NextStatus == CallUpdateStatus

SpecStatus == InitStatus /\ [][NextStatus]_vars

(***************************************************************************)
(* The validating webhook (internal/webhook/v1alpha1): create and update   *)
(* requests are validated against the store as it is at that moment; an    *)
(* admitted create is persisted later, and the store itself refuses a      *)
(* second object with the same namespace and name.                         *)
(***************************************************************************)
StandardCRName == "labels"

HookNames == {StandardCRName, "other"}
HookObjects == [namespace : Namespaces, name : HookNames]

\* a validateName that accepts every name
validateName_Any(nl) == TRUE

\* validateName: TRUE when it returns nil
validateName(nl) == nl.name = StandardCRName

\* validateSingleton: TRUE when it returns nil; oldNL is None for a create,
\* listed is what v.Client.List returns (the manager's cached client) and
\* listOk whether that call succeeded
validateSingleton(listed, listOk, nl, oldNL) ==
    IF /\ oldNL # None
       /\ oldNL[1].name = nl.name
       /\ oldNL[1].namespace = nl.namespace
    THEN TRUE
    ELSE IF ~listOk THEN FALSE
    ELSE LET existingList == {o \in listed : o.namespace = nl.namespace}
             counted == {o \in existingList :
                            ~(oldNL # None /\ o.name = oldNL[1].name)}
         IN  Cardinality(counted) = 0

ValidateCreate(listed, listOk, nl) ==
    validateName(nl) /\ validateSingleton(listed, listOk, nl, None)

ValidateUpdate(listed, listOk, oldNL, nl) ==
    validateName(nl) /\ validateSingleton(listed, listOk, nl, Some(oldNL))

InNamespace(objects, namespace) == {o \in objects : o.namespace = namespace}

Decision(op, nl, listOk, admitted) ==
    [op |-> op, namespace |-> nl.namespace, name |-> nl.name,
     existing |-> Cardinality(InNamespace(hook.store, nl.namespace)),
     listed |-> Cardinality(InNamespace(hook.cache, nl.namespace)),
     listOk |-> listOk, admitted |-> admitted]

\* a create request reaches the webhook
CreateRequest ==
    \E nl \in HookObjects, listOk \in BOOLEAN :
        LET admitted == ValidateCreate(hook.cache, listOk, nl)
        IN  /\ hook' = [hook EXCEPT
                          !.pending = IF admitted THEN hook.pending \cup {nl}
                                      ELSE hook.pending,
                          !.last = Decision("create", nl, listOk, admitted)]
            /\ UNCHANGED <<cr, ns, cm, edits, lastPass, fn, peer>>

\* the store takes a create the webhook admitted, and refuses it when it
\* already holds an object of that namespace and name
PersistCreate ==
    \E nl \in hook.pending :
        /\ hook' = [hook EXCEPT
                      !.store = hook.store \cup {nl},
                      !.pending = hook.pending \ {nl},
                      !.last = Decision("persist", nl, TRUE, nl \notin hook.store)]
        /\ UNCHANGED <<cr, ns, cm, edits, lastPass, fn, peer>>

\* the cached client catches up with the store
SyncCache ==
    /\ hook.cache # hook.store
    /\ hook' = [hook EXCEPT !.cache = hook.store, !.last = NoDecision]
    /\ UNCHANGED <<cr, ns, cm, edits, lastPass, fn, peer>>

\* an update of a stored object (name and namespace cannot change) reaches
\* the webhook
UpdateRequest ==
    \E oldNL \in hook.store, listOk \in BOOLEAN :
        /\ hook' = [hook EXCEPT !.last =
                      Decision("update", oldNL, listOk,
                               ValidateUpdate(hook.cache, listOk, oldNL, oldNL))]
        /\ UNCHANGED <<cr, ns, cm, edits, lastPass, fn, peer>>

\* deletion is not validated
DeleteObject ==
    \E nl \in hook.store :
        /\ hook' = [hook EXCEPT !.store = hook.store \ {nl},
                                !.last = NoDecision]
        /\ UNCHANGED <<cr, ns, cm, edits, lastPass, fn, peer>>

InitHook ==
    /\ cr = NoCR
    /\ ns = NoNS
    /\ cm = NoCM
    /\ edits = 0
    /\ lastPass = NoPass
    /\ fn = FnIdle
    /\ peer = NoPeer
    /\ hook = NoHook

NextHook ==
    \/ CreateRequest
    \/ PersistCreate
    \/ SyncCache
    \/ UpdateRequest
    \/ DeleteObject

SpecHook == InitHook /\ [][NextHook]_vars

(***************************************************************************)
(* The variant that keeps the protection patterns in the resource's spec   *)
(* and lists the applied and the skipped keys in its status                *)
(* (namespacelabel_controller.go 576-680, applyProtectionLogic and the     *)
(* six-argument updateStatus): one Active pass on drawn inputs.            *)
(***************************************************************************)
ProtectionModeWarn == "warn"

ReportModes == {ProtectionModeSkip, ProtectionModeWarn, ProtectionModeFail}

\* a protection loop that lists the skipped key and still allows it
RECURSIVE protectionLoop_SkipStillAllowed(_, _, _, _, _, _)
protectionLoop_SkipStillAllowed(order, desired, existing, patterns, mode, result) ==
    IF order = <<>> THEN result
    ELSE LET key == Head(order)
             value == desired[key]
             allowedToo == [result EXCEPT !.AllowedLabels =
                              [k \in DOMAIN result.AllowedLabels \cup {key} |->
                                  IF k = key THEN value
                                  ELSE result.AllowedLabels[k]]]
         IN  IF /\ isLabelProtected(key, patterns)
                /\ key \in DOMAIN existing
                /\ existing[key] # value
             THEN IF mode = ProtectionModeFail
                  THEN [result EXCEPT !.ShouldFail = TRUE,
                                      !.Warnings = Append(result.Warnings, key)]
                  ELSE protectionLoop_SkipStillAllowed(
                           Tail(order), desired, existing, patterns, mode,
                           [allowedToo EXCEPT !.ProtectedSkipped =
                               Append(result.ProtectedSkipped, key)])
             ELSE protectionLoop_SkipStillAllowed(
                      Tail(order), desired, existing, patterns, mode, allowedToo)

\* the loop of applyProtectionLogic over the desired keys in the order the
\* map iteration yields them; a warning is represented by its key
RECURSIVE protectionLoop(_, _, _, _, _, _)
protectionLoop(order, desired, existing, patterns, mode, result) ==
    IF order = <<>> THEN result
    ELSE LET key == Head(order)
             value == desired[key]
         IN  IF /\ isLabelProtected(key, patterns)
                /\ key \in DOMAIN existing
                /\ existing[key] # value
             THEN IF mode = ProtectionModeFail
                  THEN [result EXCEPT !.ShouldFail = TRUE,
                                      !.Warnings = Append(result.Warnings, key)]
                  ELSE IF mode = ProtectionModeWarn
                  THEN protectionLoop(Tail(order), desired, existing, patterns, mode,
                           [result EXCEPT
                              !.Warnings = Append(result.Warnings, key),
                              !.ProtectedSkipped = Append(result.ProtectedSkipped, key)])
                  ELSE protectionLoop(Tail(order), desired, existing, patterns, mode,
                           [result EXCEPT
                              !.ProtectedSkipped = Append(result.ProtectedSkipped, key)])
             ELSE protectionLoop(Tail(order), desired, existing, patterns, mode,
                      [result EXCEPT !.AllowedLabels =
                          [k \in DOMAIN result.AllowedLabels \cup {key} |->
                              IF k = key THEN value ELSE result.AllowedLabels[k]]])

EmptyProtectionResult ==
    [AllowedLabels |-> EmptyMap, ProtectedSkipped |-> <<>>, Warnings |-> <<>>,
     ShouldFail |-> FALSE]

applyProtectionLogic_SkipStillAllowed(desired, existing, patterns, mode, order) ==
    protectionLoop_SkipStillAllowed(order, desired, existing, patterns, mode,
                                    EmptyProtectionResult)

applyProtectionLogic(desired, existing, patterns, mode, order) ==
    protectionLoop(order, desired, existing, patterns, mode, EmptyProtectionResult)

\* the status of this variant: Go nil slices are None
ZeroListStatus ==
    [applied |-> FALSE, protectedLabelsSkipped |-> None, labelsApplied |-> None,
     conditions |-> <<>>]

\* the status left by an earlier pass that applied one key and skipped the other
StaleListStatus ==
    [applied |-> TRUE, protectedLabelsSkipped |-> Some(<<KeyA>>),
     labelsApplied |-> Some(<<KeyP>>),
     conditions |-> <<[type |-> "Ready", status |-> TRUE, reason |-> "Synced",
                       message |-> NoMessage]>>]

\* updateStatus with the two key lists (part_016 167-193)
updateStatusLists(status, ok, reason, msg, protectedSkipped, labelsApplied) ==
    [applied |-> ok,
     protectedLabelsSkipped |-> protectedSkipped,
     labelsApplied |-> labelsApplied,
     conditions |-> upsertReady(status.conditions,
                        [type |-> "Ready", status |-> ok, reason |-> reason,
                         message |-> msg])]

ReportIdle ==
    [op |-> "idle", desired |-> EmptyMap, existing |-> EmptyMap,
     prevApplied |-> EmptyMap, patterns |-> <<>>, mode |-> ProtectionModeSkip,
     status |-> ZeroListStatus, result |-> EmptyProtectionResult,
     labels |-> EmptyMap, annotation |-> EmptyMap, nsWrite |-> "none",
     annotationWrite |-> "none", statusWrite |-> "none", err |-> "nil"]

\* lines 600-680: the pass of a resource that has its finalizer and no
\* deletion marker, on a namespace that exists; order is the iteration order
\* of the desired map, keyOrder that of the allowed map (lines 665-668), f
\* the writes the store rejects, of which f.cr stands for the write of the
\* applied annotation (lines 646-649, logged only)
reportPass(r, patterns, mode, order, keyOrder, f) ==
    LET protectionResult == applyProtectionLogic(r.desired, r.existing,
                                                 patterns, mode, order)
        a == applyLabelsToNamespace(r.existing, protectionResult.AllowedLabels,
                                    r.prevApplied)
        seen == [r EXCEPT !.patterns = patterns, !.mode = mode,
                          !.result = protectionResult]
        message == SyncedMessage(r.desired, protectionResult.AllowedLabels,
                                 protectionResult.ProtectedSkipped)
    IN  IF protectionResult.ShouldFail
        THEN [seen EXCEPT
                !.op = "conflict",
                !.labels = r.existing,
                !.annotation = r.prevApplied,
                !.status = IF f.status THEN r.status
                           ELSE updateStatusLists(r.status, FALSE,
                                    "ProtectedLabelConflict", NoMessage,
                                    Some(protectionResult.ProtectedSkipped), None),
                !.statusWrite = Written(f.status),
                !.err = "protection"]
        ELSE IF a.changed /\ f.ns
        THEN [seen EXCEPT !.op = "failed", !.labels = r.existing,
                          !.annotation = r.prevApplied,
                          !.nsWrite = "failed", !.err = "update"]
        ELSE [seen EXCEPT
                !.op = "synced",
                !.labels = a.labels,
                !.nsWrite = IF a.changed THEN "ok" ELSE "none",
                !.annotation = IF f.cr THEN r.prevApplied
                               ELSE protectionResult.AllowedLabels,
                !.annotationWrite =
                    IF protectionResult.AllowedLabels = r.prevApplied THEN "none"
                    ELSE Written(f.cr),
                !.status = IF f.status THEN r.status
                           ELSE updateStatusLists(r.status, TRUE, "Synced", message,
                                    Some(protectionResult.ProtectedSkipped),
                                    Some(keyOrder)),
                !.statusWrite = Written(f.status)]

InitReport ==
    /\ cr = NoCR
    /\ ns = NoNS
    /\ cm = NoCM
    /\ edits = 0
    /\ lastPass = NoPass
    /\ fn \in {[ReportIdle EXCEPT !.desired = d, !.existing = e,
                                  !.prevApplied = p, !.status = s] :
                  d \in LabelMaps, e \in LabelMaps,
                  p \in {EmptyMap} \cup LabelMapsOver({KeyA}, {"1"}),
                  s \in {ZeroListStatus, StaleListStatus}}
    /\ peer = NoPeer
    /\ hook = NoHook

ReportReconcile ==
    /\ fn.op = "idle"
    /\ \E patterns \in FnPatterns, mode \in ReportModes,
          order \in Perms(DOMAIN fn.desired), f \in Failures :
          \E keyOrder \in Perms(DOMAIN applyProtectionLogic(
                                    fn.desired, fn.existing, patterns, mode,
                                    order).AllowedLabels) :
              fn' = reportPass(fn, patterns, mode, order, keyOrder, f)
    /\ UNCHANGED <<cr, ns, cm, edits, lastPass, peer, hook>>

NextReport == ReportReconcile

SpecReport == InitReport /\ [][NextReport]_vars

(***************************************************************************)
(* A pass in two steps, the reads and the writes, with an external writer  *)
(* of namespace labels in between.  r.Update(ctx, ns) sends the namespace  *)
(* as it was read, resourceVersion included, and the store rejects an      *)
(* update whose resourceVersion is not the live one.                       *)
(***************************************************************************)
\* an update that is stored whatever the live resourceVersion is
updateRejected_LastWriteWins(readVersion, liveVersion, failed) == failed

\* r.Update(ctx, ns), line 376 and line 432: rejected on a conflict of
\* resourceVersions or for a reason of the store's own
updateRejected(readVersion, liveVersion, failed) ==
    readVersion # liveVersion \/ failed

RaceIdle ==
    [op |-> "idle", resourceVersion |-> 0,
     read |-> [cr |-> NoCR, ns |-> NoNS, cm |-> NoCM, resourceVersion |-> 0],
     edited |-> {}]

RaceConfigs ==
    {[exists |-> TRUE, patterns |-> <<PatK>>, mode |-> m] :
        m \in {ProtectionModeSkip, ProtectionModeFail}}

\* the resource desires the protected key, and has either not synced yet or
\* recorded its desired labels as applied
RaceSpecs == {l \in LabelMaps : KeyP \in DOMAIN l}

InitRace ==
    /\ cr \in UNION {{[NewCR(l) EXCEPT !.finalizer = TRUE,
                                        !.status.appliedLabels = a] :
                          a \in {None, Some(l)}} : l \in RaceSpecs}
    /\ ns \in {[exists |-> TRUE, labels |-> l] : l \in LabelMaps}
    /\ cm \in RaceConfigs
    /\ edits = 0
    /\ lastPass = [NoPass EXCEPT !.requested = TRUE]
    /\ fn = RaceIdle
    /\ peer = NoPeer
    /\ hook = NoHook

\* lines 323-363: the pass reads the resource, the namespace and the
\* protection configuration
RaceRead ==
    /\ fn.op = "idle"
    /\ lastPass.n < MaxRun
    /\ fn' = [fn EXCEPT !.op = "read",
                        !.read = [cr |-> cr, ns |-> ns, cm |-> cm,
                                  resourceVersion |-> fn.resourceVersion],
                        !.edited = {}]
    /\ UNCHANGED <<cr, ns, cm, edits, lastPass, peer, hook>>

\* another writer sets a label of the namespace
RaceEdit ==
    /\ edits < MaxEdits
    /\ edits' = edits + 1
    /\ \E k \in Keys, v \in Values :
          /\ Lookup(ns.labels, k) # v
          /\ ns' = [ns EXCEPT !.labels = [x \in DOMAIN ns.labels \cup {k} |->
                                             IF x = k THEN v ELSE ns.labels[x]]]
          /\ fn' = [fn EXCEPT !.resourceVersion = fn.resourceVersion + 1,
                              !.edited = IF fn.op = "read" THEN fn.edited \cup {k}
                                         ELSE {}]
    /\ UNCHANGED <<cr, cm, lastPass, peer, hook>>

\* lines 365-404 (or finalize): the pass decides on what it read and issues
\* its writes
RaceWrite ==
    /\ fn.op = "read"
    /\ \E f \in Failures, order \in Perms(DOMAIN fn.read.cr.spec) :
        \E out \in {ReconcileOutcome(
                        fn.read.cr, fn.read.ns, fn.read.cm, order,
                        [f EXCEPT !.ns = updateRejected(fn.read.resourceVersion,
                                                        fn.resourceVersion, f.ns)])} :
          /\ cr' = out.cr
          /\ ns' = IF out.pass.nsWrite = "ok" THEN out.ns ELSE ns
          /\ fn' = [fn EXCEPT !.op = "idle",
                              !.resourceVersion =
                                  IF out.pass.nsWrite = "ok"
                                  THEN fn.resourceVersion + 1
                                  ELSE fn.resourceVersion]
          /\ lastPass' = [out.pass EXCEPT !.req = Main,
                             !.requested = Requeues(out.pass),
                             !.n = lastPass.n + 1]
    /\ UNCHANGED <<cm, edits, peer, hook>>

NextRace ==
    \/ RaceRead
    \/ RaceEdit
    \/ RaceWrite

SpecRace == InitRace /\ [][NextRace]_vars

(***************************************************************************)
(* The life of one resource from its creation to its removal, with the     *)
(* record of what the passes wrote to the namespace: the labels of the     *)
(* namespace before the first pass, the pairs the passes have set and not  *)
(* removed since, and the keys a pass has ever set.  A crash between two writes of a pass leaves the     *)
(* store as the rejection of the later writes does.                        *)
(***************************************************************************)
\* the pairs written after a pass that stored the namespace labels after
\* over the labels before
WrittenAfter(written, before, after) ==
    LET set == {k \in DOMAIN after : Lookup(before, k) # after[k]
                                     \/ k \notin DOMAIN before}
        removed == DOMAIN before \ DOMAIN after
        kept == (DOMAIN written \ removed) \cup set
    IN  [k \in kept |-> IF k \in set THEN after[k] ELSE written[k]]

InitOrphan ==
    /\ cr \in {NewCR(l) : l \in LabelMaps}
    /\ ns \in {[exists |-> TRUE, labels |-> l] : l \in LabelMaps}
    /\ cm \in {NoCM, [exists |-> TRUE, patterns |-> <<PatK>>,
                      mode |-> ProtectionModeSkip]}
    /\ edits = 0
    /\ lastPass = [NoPass EXCEPT !.requested = TRUE]
    /\ fn = [initial |-> ns.labels, written |-> EmptyMap, everSet |-> {}]
    /\ peer = NoPeer
    /\ hook = NoHook

\* one pass of Reconcile, the store rejecting the writes f
OrphanReconcile ==
    /\ lastPass.n < MaxRun
    /\ \E f \in Failures, order \in Perms(DOMAIN cr.spec) :
        \E out \in {ReconcileOutcome(cr, ns, cm, order, f)} :
          /\ cr' = out.cr
          /\ ns' = out.ns
          /\ fn' = [fn EXCEPT
                      !.written = WrittenAfter(fn.written, ns.labels, out.ns.labels),
                      !.everSet = fn.everSet \cup
                                  DOMAIN WrittenAfter(EmptyMap, ns.labels,
                                                      out.ns.labels)]
          /\ lastPass' = [out.pass EXCEPT !.req = Main,
                             !.requested = Requeues(out.pass),
                             !.n = lastPass.n + 1]
    /\ UNCHANGED <<cm, edits, peer, hook>>

NextOrphan ==
    \/ OrphanReconcile
    \/ UpdateSpec
    \/ DeleteCR

SpecOrphan == InitOrphan /\ [][NextOrphan]_vars

(***************************************************************************)
(* A resource whose deletion marker is set, with or without the engine's   *)
(* finalizer: without it the object is still in the store only while       *)
(* another finalizer holds it.                                             *)
(***************************************************************************)
InitTerm ==
    /\ cr \in {[NewCR(l) EXCEPT !.deleting = TRUE, !.finalizer = fz,
                                !.otherFinalizers = o,
                                !.status.appliedLabels = a] :
                  l \in LabelMaps, fz \in BOOLEAN, o \in BOOLEAN,
                  a \in {None} \cup {Some(x) : x \in LabelMapsOver(Keys, {"1"})}}
    /\ cr.finalizer \/ cr.otherFinalizers
    /\ ns \in {NoNS} \cup {[exists |-> TRUE, labels |-> l] : l \in LabelMaps}
    /\ cm \in ConfigChoices
    /\ edits = 0
    /\ lastPass = [NoPass EXCEPT !.requested = TRUE]
    /\ fn = FnIdle
    /\ peer = NoPeer
    /\ hook = NoHook

\* the holder of another finalizer removes it
ReleaseOtherFinalizer ==
    /\ External(TRUE)
    /\ cr.exists
    /\ cr.otherFinalizers
    /\ cr' = Stored([cr EXCEPT !.otherFinalizers = FALSE])
    /\ UNCHANGED <<ns, cm>>

NextTerm ==
    \/ Reconcile
    \/ EditNamespaceLabel
    \/ ReleaseOtherFinalizer

SpecTerm == InitTerm /\ [][NextTerm]_vars

(***************************************************************************)
(* A newly created resource left to the controller: no external edit, no   *)
(* rejected write, every queued request eventually handled.                *)
(***************************************************************************)
InitConv ==
    /\ cr \in {NewCR(l) : l \in LabelMaps}
    /\ ns \in {[exists |-> TRUE, labels |-> l] : l \in LabelMaps}
    /\ cm \in ConfigChoices
    /\ edits = 0
    /\ lastPass = [NoPass EXCEPT !.requested = TRUE]
    /\ fn = FnIdle
    /\ peer = NoPeer
    /\ hook = NoHook

NextConv == DeliverAccepted

SpecConv == InitConv /\ [][NextConv]_vars /\ WF_vars(DeliverAccepted)

(***************************************************************************)
(* Properties                                                              *)
(***************************************************************************)
\* the pass just finished wrote nothing that the store rejected
NoWriteFailed ==
    /\ lastPass.nsWrite # "failed"
    /\ lastPass.statusWrite # "failed"
    /\ lastPass.crWrite # "failed"

\* key k of the desired map conflicted with a protected label in the labels
\* the pass read
Conflicting(k) ==
    /\ k \in DOMAIN lastPass.desired
    /\ isLabelProtected(k, lastPass.config.Patterns)
    /\ k \in DOMAIN lastPass.before
    /\ lastPass.before[k] # lastPass.desired[k]

\* key k has the same presence and value in the namespace as before the pass
Untouched(k) ==
    /\ (k \in DOMAIN ns.labels) <=> (k \in DOMAIN lastPass.before)
    /\ k \in DOMAIN ns.labels => ns.labels[k] = lastPass.before[k]

SyncPass ==
    /\ lastPass.kind = "active"
    /\ lastPass.nsFound

\* C1: in skip mode an Active pass whose writes are all accepted leaves every
\* conflicting protected key on the namespace with the value it had when the
\* pass read it, applies the other desired labels and returns no error.
C1_SkipKeepsProtected ==
    (SyncPass /\ lastPass.config.Mode = ProtectionModeSkip /\ NoWriteFailed) =>
        /\ \A k \in Keys : Conflicting(k) => Untouched(k)
        /\ \A k \in DOMAIN lastPass.desired :
              ~Conflicting(k) =>
                  k \in DOMAIN ns.labels /\ ns.labels[k] = lastPass.desired[k]
        /\ lastPass.err = "nil"

\* C2: in fail mode an Active pass that meets a conflicting protected key
\* writes nothing to the namespace (labels after equal labels before), returns
\* the protection error and requests a retry after 5 minutes.
C2_FailModeNoWrite ==
    (SyncPass /\ lastPass.config.Mode = ProtectionModeFail
        /\ \E k \in Keys : Conflicting(k)) =>
        /\ lastPass.nsWrite = "none"
        /\ ns.labels = lastPass.before
        /\ lastPass.err = "protection"
        /\ lastPass.requeueAfter = 5

\* a fail-mode pass with a conflict while another desired label is not on the
\* namespace
C2_Witness ==
    /\ SyncPass
    /\ lastPass.err = "protection"
    /\ \E k \in Keys : Conflicting(k)
    /\ \E k \in DOMAIN lastPass.desired :
          ~Conflicting(k) /\ k \notin DOMAIN ns.labels

\* C3: an Active pass that follows a successful Active pass, with no external
\* change in between, issues no namespace write.
C3_SecondPassNoNamespaceWrite ==
    [][(/\ lastPass.kind = "active"
        /\ lastPass.err = "nil"
        /\ lastPass'.kind = "active") => lastPass'.nsWrite = "none"]_vars

\* C4: an Active pass that follows a successful Active pass, with no external
\* change in between, issues no status write.
C4_SecondPassNoStatusWrite ==
    [][(/\ lastPass.kind = "active"
        /\ lastPass.err = "nil"
        /\ lastPass'.kind = "active") => lastPass'.statusWrite = "none"]_vars

\* C5: a key that a pass deleted from the namespace was in the applied-set the
\* pass read, and its live value equalled the value recorded for it; a value
\* changed externally since it was applied is never deleted.
C5_DeletesOnlyOwnedPairs ==
    \A k \in Keys :
        (/\ lastPass.kind # "none"
         /\ k \in DOMAIN lastPass.before
         /\ k \notin DOMAIN ns.labels) =>
            /\ k \in DOMAIN lastPass.prevApplied
            /\ lastPass.before[k] = lastPass.prevApplied[k]

\* a pass deleted one applied label and kept another applied key whose value
\* had been changed externally
C5_Witness ==
    /\ lastPass.nsWrite = "ok"
    /\ \E k \in DOMAIN lastPass.before : k \notin DOMAIN ns.labels
    /\ \E k \in DOMAIN lastPass.prevApplied :
          /\ k \in DOMAIN ns.labels
          /\ k \notin DOMAIN lastPass.desired
          /\ ns.labels[k] # lastPass.prevApplied[k]

C7_UnownedLabelsKept ==
    \A k \in Keys :
        (/\ lastPass.kind # "none"
         /\ k \notin DOMAIN lastPass.desired
         /\ k \notin DOMAIN lastPass.prevApplied) => Untouched(k)

\* a pass wrote the namespace while it carried a label that is neither desired
\* nor in the applied-set
C7_Witness ==
    /\ lastPass.nsWrite = "ok"
    /\ \E k \in DOMAIN lastPass.before :
          /\ k \notin DOMAIN lastPass.desired
          /\ k \notin DOMAIN lastPass.prevApplied
          /\ k \in DOMAIN ns.labels

C9_AbsentIsNoOp ==
    lastPass.kind = "absent" =>
        /\ lastPass.err = "nil"
        /\ lastPass.requeueAfter = 0
        /\ lastPass.nsWrite = "none"
        /\ lastPass.statusWrite = "none"
        /\ lastPass.crWrite = "none"
        /\ ns.labels = lastPass.before

\* C10: a Terminating pass that finds the namespace and whose writes are
\* accepted leaves no label of the applied-set on the namespace, leaves the
\* labels outside the applied-set unchanged, ends with the applied-set
\* cleared and the finalizer removed, and returns success without requeue.
C10_TeardownRemovesApplied ==
    (/\ lastPass.kind = "terminating"
     /\ lastPass.nsFound
     /\ lastPass.nsWrite # "failed"
     /\ lastPass.crWrite = "ok") =>
        /\ \A k \in DOMAIN lastPass.prevApplied :
              Lookup(ns.labels, k) # lastPass.prevApplied[k]
        /\ \A k \in Keys \ DOMAIN lastPass.prevApplied : Untouched(k)
        /\ getAppliedLabels(cr) = EmptyMap
        /\ ~cr.finalizer
        /\ ~cr.exists
        /\ lastPass.err = "nil"
        /\ lastPass.requeueAfter = 0

\* teardown removed an applied label from a namespace that also carries an
\* unmanaged one
C10_Witness ==
    /\ lastPass.kind = "terminating"
    /\ lastPass.nsWrite = "ok"
    /\ lastPass.crWrite = "ok"
    /\ \E k \in DOMAIN lastPass.prevApplied : k \notin DOMAIN ns.labels
    /\ \E k \in DOMAIN ns.labels : k \notin DOMAIN lastPass.prevApplied

\* C11: a Terminating pass that does not find its namespace attempts no
\* namespace write and goes straight to the update that removes the
\* finalizer, without requeue; when the store accepts that update the
\* finalizer is gone (and with it the resource) and the pass returns
\* success, when the store rejects it the pass returns the update's error.
C11_TeardownNamespaceGone ==
    (lastPass.kind = "terminating" /\ ~lastPass.nsFound) =>
        /\ lastPass.nsWrite = "none"
        /\ ns = NoNS
        /\ lastPass.requeueAfter = 0
        /\ lastPass.crWrite # "none"
        /\ lastPass.crWrite = "ok" =>
              ~cr.finalizer /\ ~cr.exists /\ lastPass.err = "nil"
        /\ lastPass.crWrite = "failed" => lastPass.err = "update"

\* teardown of a resource that had applied labels to a namespace that has
\* since been deleted
C11_Witness ==
    /\ lastPass.kind = "terminating"
    /\ ~lastPass.nsFound
    /\ lastPass.crWrite = "ok"
    /\ lastPass.prevApplied # EmptyMap
    /\ ~cr.exists

\* C12: a Terminating pass whose namespace update is rejected writes nothing
\* else: the stored resource keeps its deletion marker and its finalizer,
\* the namespace keeps the labels it had, and the pass asks for a retry
\* after one minute.
C12_TeardownWriteFailureKeepsFinalizer ==
    (lastPass.kind = "terminating" /\ lastPass.nsWrite = "failed") =>
        /\ cr.exists
        /\ cr.deleting
        /\ cr.finalizer
        /\ lastPass.crWrite = "none"
        /\ lastPass.statusWrite = "none"
        /\ getAppliedLabels(cr) = lastPass.prevApplied
        /\ ns.labels = lastPass.before
        /\ lastPass.requeueAfter = RequeueTeardown
        /\ RequeueTeardown = 1

\* the rejected update would have removed an applied label
C12_Witness ==
    /\ lastPass.kind = "terminating"
    /\ lastPass.nsWrite = "failed"
    /\ \E k \in DOMAIN lastPass.prevApplied :
          Lookup(ns.labels, k) = lastPass.prevApplied[k]

\* the namespace (if it exists) carries no pair of the applied-set the pass
\* read
CleanedUp ==
    \/ ~lastPass'.nsFound
    \/ \A k \in DOMAIN lastPass'.prevApplied :
          Lookup(ns'.labels, k) # lastPass'.prevApplied[k]

\* C13: every step that removes the finalizer is a Terminating pass whose
\* update of the resource was accepted and that found the namespace absent
\* or left it without any pair of the applied-set it read, no namespace
\* write of it having been rejected; and every step in which the resource
\* disappears leaves no pair of the resource's applied-set on the namespace.
C13_FinalizerRemovedAfterCleanup ==
    [][/\ (cr.finalizer /\ ~cr'.finalizer) =>
             /\ lastPass'.kind = "terminating"
             /\ lastPass'.crWrite = "ok"
             /\ lastPass'.nsWrite # "failed"
             /\ CleanedUp
       /\ (cr.exists /\ ~cr'.exists) =>
             \A k \in DOMAIN getAppliedLabels(cr) :
                Lookup(ns'.labels, k) # getAppliedLabels(cr)[k]]_vars

\* the finalizer has been removed by a pass that had to delete two labels
C13_Witness ==
    /\ lastPass.kind = "terminating"
    /\ lastPass.hadFinalizer
    /\ ~cr.finalizer
    /\ lastPass.nsWrite = "ok"
    /\ DOMAIN lastPass.prevApplied = Keys
    /\ ns.labels = EmptyMap

\* C14: with queued requests eventually handled by a pass whose writes the
\* store accepts, a resource whose deletion marker is set eventually
\* disappears (its finalizer removed).
C14_DeletionCompletes ==
    (cr.exists /\ cr.deleting) ~> ~cr.exists

\* the resource disappeared in a retry, after a pass whose write was
\* rejected
C14_Witness ==
    /\ lastPass.kind = "terminating"
    /\ lastPass.hadFinalizer
    /\ lastPass.n >= 2
    /\ lastPass.crWrite = "ok"
    /\ ~cr.exists

Drifted(k) ==
    /\ k \in DOMAIN lastPass.desired
    /\ k \in DOMAIN lastPass.prevApplied
    /\ lastPass.prevApplied[k] = lastPass.desired[k]
    /\ Lookup(lastPass.before, k) # lastPass.desired[k]

\* the pass just finished is an Active pass that found the namespace,
\* returned success and had no write rejected
SuccessfulSync ==
    /\ SyncPass
    /\ lastPass.err = "nil"
    /\ NoWriteFailed

\* a key that is not desired is not put (back) on the namespace, and a key
\* that is neither desired nor in the applied-set is left as it is
OthersLeftAlone ==
    /\ \A k \in Keys \ (DOMAIN lastPass.desired \cup DOMAIN lastPass.before) :
          k \notin DOMAIN ns.labels
    /\ \A k \in Keys \ (DOMAIN lastPass.desired \cup DOMAIN lastPass.prevApplied) :
          Untouched(k)

C17_ActiveNamespaceMissing ==
    [][(lastPass'.kind = "active" /\ ~lastPass'.nsFound) =>
          /\ lastPass'.err = "notfound"
          /\ lastPass'.requeueAfter = 0
          /\ lastPass'.nsWrite = "none"
          /\ lastPass'.statusWrite = "none"
          /\ lastPass'.crWrite = "none"
          /\ cr' = cr
          /\ cr.exists /\ ~cr.deleting /\ cr.finalizer
          /\ getAppliedLabels(cr') = lastPass'.prevApplied
          /\ ns' = ns
          /\ ns = NoNS]_vars

\* the namespace of a synced resource was deleted and a pass ran
C17_Witness ==
    /\ lastPass.kind = "active"
    /\ ~lastPass.nsFound
    /\ lastPass.err = "notfound"
    /\ cr.status.applied
    /\ lastPass.prevApplied # EmptyMap

\* C18: a pass for the resource instance of one namespace changes neither
\* the other namespace object nor the other namespace's resource instance,
\* whatever the order in which the passes for the two instances run; what
\* it changes are the namespace named by its request and the instance it
\* read.
C18_PassesStayInTheirNamespace ==
    [][/\ (lastPass'.kind # "none" /\ lastPass'.req = Peer) =>
             /\ ns' = ns
             /\ cr' = cr
       /\ (lastPass'.kind # "none" /\ lastPass'.req = Main) =>
             peer' = peer
       /\ lastPass'.kind # "none" => cm' = cm]_vars

\* a pass wrote labels to the peer namespace while the main namespace,
\* whose own instance is synced with other labels, stayed as it was
C18_Witness ==
    /\ lastPass.req = Peer
    /\ lastPass.kind = "active"
    /\ lastPass.nsWrite = "ok"
    /\ peer.ns.labels # lastPass.before
    /\ cr.status.applied
    /\ getAppliedLabels(cr) # EmptyMap
    /\ ns.labels # peer.ns.labels

\* C19: a pass one of whose writes (namespace update, status update carrying
\* the applied-set, finalizer update) was rejected ends with an error or an
\* explicit requeue, never with plain success.
C19_RejectedWriteIsRetried ==
    (\/ lastPass.nsWrite = "failed"
     \/ lastPass.statusWrite = "failed"
     \/ lastPass.crWrite = "failed") =>
        \/ lastPass.err # "nil"
        \/ lastPass.requeueAfter > 0

\* desired key k matches a protection pattern of the call and the existing
\* labels do not carry it, or carry it with the desired value
FreeProtected(k) ==
    /\ k \in DOMAIN fn.desired
    /\ isLabelProtected(k, fn.config.Patterns)
    /\ k \in DOMAIN fn.current => fn.current[k] = fn.desired[k]

\* key k is in the allowed map with its desired value and is not reported as
\* skipped or as the conflict
AllowedAsDesired(k) ==
    /\ fn.allowed # None
    /\ k \in DOMAIN fn.allowed[1]
    /\ fn.allowed[1][k] = fn.desired[k]
    /\ k \notin Range(fn.skipped[1])
    /\ fn.conflict.key # k

\* C20 as stated: in every protection mode filterProtectedLabels puts every
\* protected desired key that is absent from the existing labels, or
\* present with the same value, in allowed with its desired value.
C20_FreeProtectedAlwaysAllowed ==
    fn.op = "filterProtectedLabels" =>
        \A k \in Keys : FreeProtected(k) => AllowedAsDesired(k)

\* C20: whenever filterProtectedLabels returns without error (always in
\* skip and warn mode; in fail mode when no desired key conflicts), every
\* protected desired key that is absent from the existing labels, or
\* present with the same value, is in allowed with its desired value and is
\* not skipped; when it returns an error (fail mode, another desired key
\* conflicting) allowed is nil, and the conflict reported is never such a
\* key.
C20_FreeProtectedAllowedOnSuccess ==
    fn.op = "filterProtectedLabels" =>
        /\ fn.config.Mode # ProtectionModeFail => fn.ok
        /\ fn.ok => \A k \in Keys : FreeProtected(k) => AllowedAsDesired(k)
        /\ ~fn.ok =>
              /\ fn.allowed = None
              /\ fn.config.Mode = ProtectionModeFail
              /\ fn.conflict.key \in DOMAIN fn.desired
              /\ ~FreeProtected(fn.conflict.key)
              /\ isLabelProtected(fn.conflict.key, fn.config.Patterns)

\* a call in fail mode allowed a new protected key and a protected key
\* present with the same value
C20_Witness ==
    /\ fn.op = "filterProtectedLabels"
    /\ fn.config.Mode = ProtectionModeFail
    /\ fn.ok
    /\ \E k \in Keys : FreeProtected(k) /\ k \notin DOMAIN fn.current
                                        /\ k \in DOMAIN fn.allowed[1]
    /\ \E k \in Keys : FreeProtected(k) /\ k \in DOMAIN fn.current
                                        /\ k \in DOMAIN fn.allowed[1]

\* the desired keys of the call that match a protection pattern and are in
\* the existing labels with another value
FnConflicts ==
    {k \in DOMAIN fn.desired :
        /\ isLabelProtected(k, fn.config.Patterns)
        /\ k \in DOMAIN fn.current
        /\ fn.current[k] # fn.desired[k]}

\* C21: in skip mode filterProtectedLabels returns no error; skipped lists,
\* once each, exactly the desired keys that match a protection pattern and
\* are in the existing labels with a different value; allowed is the
\* desired map restricted to all the other desired keys.
C21_SkipModePartition ==
    (fn.op = "filterProtectedLabels" /\ fn.config.Mode = ProtectionModeSkip) =>
        /\ fn.ok
        /\ fn.conflict = NoConflict
        /\ fn.allowed # None
        /\ fn.skipped # None
        /\ Range(fn.skipped[1]) = FnConflicts
        /\ Len(fn.skipped[1]) = Cardinality(FnConflicts)
        /\ fn.allowed[1] = Restrict(fn.desired, DOMAIN fn.desired \ FnConflicts)
        /\ DOMAIN fn.allowed[1] \cap Range(fn.skipped[1]) = {}
        /\ DOMAIN fn.allowed[1] \cup Range(fn.skipped[1]) = DOMAIN fn.desired

\* a skip-mode call skipped one key and allowed the other, which is
\* protected too but absent from the existing labels
C21_Witness ==
    /\ fn.op = "filterProtectedLabels"
    /\ fn.config.Mode = ProtectionModeSkip
    /\ Len(fn.skipped[1]) = 1
    /\ \E k \in DOMAIN fn.allowed[1] :
          /\ isLabelProtected(k, fn.config.Patterns)
          /\ k \notin DOMAIN fn.current

\* C22: in fail mode, when some desired key matches a protection pattern
\* and is in the existing labels with a different value,
\* filterProtectedLabels returns an error naming one such key with its
\* existing and its attempted value, and returns nil for allowed and for
\* skipped, whatever the other desired keys are.
C22_FailModeAborts ==
    (/\ fn.op = "filterProtectedLabels"
     /\ fn.config.Mode = ProtectionModeFail
     /\ FnConflicts # {}) =>
        /\ ~fn.ok
        /\ fn.allowed = None
        /\ fn.skipped = None
        /\ fn.conflict.key \in FnConflicts
        /\ fn.conflict.existing = fn.current[fn.conflict.key]
        /\ fn.conflict.attempted = fn.desired[fn.conflict.key]

\* a fail-mode call aborted on one key while the other desired key was free
\* to be applied
C22_Witness ==
    /\ fn.op = "filterProtectedLabels"
    /\ fn.config.Mode = ProtectionModeFail
    /\ ~fn.ok
    /\ Cardinality(FnConflicts) = 1
    /\ Cardinality(DOMAIN fn.desired) = 2

\* the conditions of type Ready in the stored status of the resource
ReadyConditions ==
    {i \in DOMAIN cr.status.conditions : cr.status.conditions[i].type = "Ready"}

AllDesiredOnNamespace ==
    \A k \in DOMAIN lastPass.desired :
        k \in DOMAIN ns.labels /\ ns.labels[k] = lastPass.desired[k]

C25_UnknownModeIsSkip ==
    (/\ SyncPass
     /\ cm.exists
     /\ cm.mode \notin {ProtectionModeSkip, ProtectionModeFail}) =>
        /\ lastPass.config = [Patterns |-> cm.patterns, Mode |-> ProtectionModeSkip]
        /\ lastPass.err \in {"nil", "update"}
        /\ lastPass.skipped # None
        /\ Range(lastPass.skipped[1]) = {k \in Keys : Conflicting(k)}
        /\ lastPass.allowed =
              Some(Restrict(lastPass.desired,
                            {k \in DOMAIN lastPass.desired : ~Conflicting(k)}))
        /\ lastPass.nsWrite # "failed" => lastPass.err = "nil"

\* with an unknown mode a pass skipped a conflicting protected key, applied
\* another desired label and succeeded
C25_Witness ==
    /\ SyncPass
    /\ cm.exists
    /\ cm.mode = "warn"
    /\ lastPass.err = "nil"
    /\ Len(lastPass.skipped[1]) = 1
    /\ lastPass.nsWrite = "ok"
    /\ \E k \in DOMAIN lastPass.desired :
          ~Conflicting(k) /\ lastPass.before # ns.labels /\ ns.labels[k] = lastPass.desired[k]

\* the conditions of a list whose type is not Ready, in their order
OtherConditions(conds) == SelectSeq(conds, LAMBDA c : c.type # "Ready")
ReadyOf(conds) == SelectSeq(conds, LAMBDA c : c.type = "Ready")

C27_StarCrossesSeparator ==
    fn.op = "isLabelProtected" =>
        /\ <<"*">> \in Range(fn.patterns) => fn.protected
        /\ (<<"k", "*">> \in Range(fn.patterns) /\ fn.key[1] = "k") =>
              fn.protected

\* pattern p has none of the matcher's special characters
Literal(p) == \A i \in DOMAIN p : p[i] \notin {"*", "?", "[", "]"}

\* C28: isLabelProtected is true exactly when some pattern of the list is
\* non-empty, is accepted by the matcher after its double wildcards are
\* collapsed, and then matches the whole key; the empty and the malformed
\* patterns before or after it make no difference, an empty list yields
\* false, and a literal pattern protects only the key equal to it.
C28_ProtectedIffSomePatternMatches ==
    fn.op = "isLabelProtected" =>
        /\ fn.protected <=>
              \E i \in DOMAIN fn.patterns :
                 /\ fn.patterns[i] # <<>>
                 /\ ~BadPattern(ReplaceStarStar(fn.patterns[i]))
                 /\ GlobMatch(ReplaceStarStar(fn.patterns[i]), fn.key)
        /\ fn.patterns = <<>> => ~fn.protected
        /\ (\A i \in DOMAIN fn.patterns : Literal(fn.patterns[i])) =>
              (fn.protected <=> fn.key \in Range(fn.patterns))
        /\ (\A i \in DOMAIN fn.patterns :
                fn.patterns[i] = <<>> \/ BadPattern(fn.patterns[i])) =>
              ~fn.protected

\* a key is protected by a valid pattern listed after a malformed one
C28_Witness ==
    /\ fn.op = "isLabelProtected"
    /\ Len(fn.patterns) = 2
    /\ BadPattern(fn.patterns[1])
    /\ fn.patterns[2] = <<"k", "/", "*", "*", "*">>
    /\ fn.key = KeyP
    /\ fn.protected

\* C29: whatever creates and updates the webhook has admitted, every
\* namespace holds at most one NamespaceLabel and it is named 'labels'; a
\* create is rejected by the webhook when its name is not 'labels' or when
\* the webhook finds a NamespaceLabel in the namespace, and a create the
\* webhook admitted is refused by the store when the namespace already holds
\* one; an update of a stored object, which keeps name and namespace, is
\* admitted.
C29_SingletonNamedLabels ==
    /\ \A o \in hook.store : o.name = StandardCRName
    /\ \A o1 \in hook.store, o2 \in hook.store :
          o1.namespace = o2.namespace => o1 = o2
    /\ hook.last.op = "create" =>
          (hook.last.admitted <=>
              /\ hook.last.name = StandardCRName
              /\ hook.last.listOk
              /\ hook.last.listed = 0)
    /\ hook.last.op = "persist" /\ hook.last.existing > 0 => ~hook.last.admitted
    /\ hook.last.op = "update" => hook.last.admitted

\* a create was rejected in a namespace that holds its NamespaceLabel while
\* the other namespace holds one too
C29_Witness ==
    /\ Cardinality(hook.store) = 2
    /\ hook.last.op = "create"
    /\ hook.last.name = StandardCRName
    /\ hook.last.existing = 1
    /\ hook.last.listed = 1
    /\ hook.last.listOk
    /\ ~hook.last.admitted

\* C30: after applyDesiredLabels(current, desired) every key of desired is
\* present in current with exactly its desired value, also when that value is
\* the empty string and the key was absent; keys outside desired are
\* unchanged; and the returned flag is true exactly when current was mutated.
C30_DesiredAllPresent ==
    fn.op = "applyDesiredLabels" =>
        /\ \A key \in DOMAIN fn.desired :
              key \in DOMAIN fn.labels /\ fn.labels[key] = fn.desired[key]
        /\ \A key \in Keys \ DOMAIN fn.desired :
              /\ key \in DOMAIN fn.labels <=> key \in DOMAIN fn.current
              /\ key \in DOMAIN fn.current => fn.labels[key] = fn.current[key]
        /\ fn.changed <=> fn.labels # fn.current

\* C31: after an Active pass whose writes are all accepted, the applied-set
\* stored in the resource's status is exactly the allowed map of that pass:
\* every allowed key with its desired value, no skipped key, and no key that
\* was applied earlier and is no longer desired.
C31_AppliedSetIsAllowed ==
    SuccessfulSync =>
        /\ cr.status.appliedLabels = lastPass.allowed
        /\ \A k \in DOMAIN getAppliedLabels(cr) :
              /\ k \in DOMAIN lastPass.desired
              /\ getAppliedLabels(cr)[k] = lastPass.desired[k]
              /\ k \notin Range(lastPass.skipped[1])
        /\ \A k \in DOMAIN lastPass.desired :
              k \in DOMAIN getAppliedLabels(cr) \/ k \in Range(lastPass.skipped[1])
        /\ \A k \in DOMAIN lastPass.prevApplied \ DOMAIN lastPass.desired :
              k \notin DOMAIN getAppliedLabels(cr)

\* a pass recorded one allowed key, skipped a protected one and dropped the
\* record of a key that is no longer allowed
C31_Witness ==
    /\ SuccessfulSync
    /\ lastPass.statusWrite = "ok"
    /\ lastPass.skipped[1] # <<>>
    /\ getAppliedLabels(cr) # EmptyMap
    /\ \E k \in DOMAIN lastPass.prevApplied : k \notin DOMAIN getAppliedLabels(cr)

\* C32: after a successful Active pass of the variant that lists keys in the
\* status, the applied-key list holds exactly the keys of the allowed labels,
\* the skipped-key list exactly the keys that conflicted with a protected
\* label of the namespace, each once, and no skipped key is among the applied
\* keys.
C32_StatusListsExact ==
    (fn.op = "synced" /\ fn.statusWrite = "ok") =>
        LET applied == fn.status.labelsApplied[1]
            skipped == fn.status.protectedLabelsSkipped[1]
            conflicts == {k \in DOMAIN fn.desired :
                             /\ isLabelProtected(k, fn.patterns)
                             /\ k \in DOMAIN fn.existing
                             /\ fn.existing[k] # fn.desired[k]}
        IN  /\ Range(applied) = DOMAIN fn.result.AllowedLabels
            /\ Len(applied) = Cardinality(Range(applied))
            /\ Range(skipped) = conflicts
            /\ Len(skipped) = Cardinality(conflicts)
            /\ Range(applied) = DOMAIN fn.desired \ conflicts
            /\ Range(applied) \cap Range(skipped) = {}
            /\ fn.status.applied

\* skip mode, the namespace carries k/p with another value than desired and
\* the resource desires both keys: skipped is [k/p], applied is [a], and the
\* namespace keeps its value of k/p
C32_Witness ==
    /\ fn.op = "synced"
    /\ fn.statusWrite = "ok"
    /\ fn.mode = ProtectionModeSkip
    /\ DOMAIN fn.desired = Keys
    /\ fn.status.protectedLabelsSkipped = Some(<<KeyP>>)
    /\ fn.status.labelsApplied = Some(<<KeyA>>)
    /\ Lookup(fn.labels, KeyP) # fn.desired[KeyP]

\* the writes of a pass follow an external write of a protected key made
\* after the pass had read the namespace
RacedWrite ==
    /\ fn.op = "read"
    /\ fn'.op = "idle"
    /\ \E k \in fn.edited : isLabelProtected(k, getProtectionConfig(fn.read.cm).Patterns)

\* C33: when an external writer sets a protected label after the pass has
\* read the namespace and before the pass writes it, the pass either had no
\* namespace write to make or its write is rejected and the pass returns the
\* error, so that it is requeued: the namespace keeps every label as the
\* external writer left it; and every pass reads the live namespace, so the
\* pass that follows filters the desired labels against the external value.
C33_RaceCannotBypassProtection ==
    [][/\ RacedWrite =>
            /\ ns' = ns
            /\ lastPass'.nsWrite # "ok"
            /\ lastPass'.nsWrite = "failed" =>
                  /\ lastPass'.err = "update"
                  /\ lastPass'.requested
                  /\ cr' = cr
       /\ (fn.op = "idle" /\ fn'.op = "read") =>
            /\ fn'.read.ns = ns
            /\ fn'.read.resourceVersion = fn.resourceVersion
       /\ (fn.op = "read" /\ fn'.op = "idle") =>
            /\ lastPass'.before = fn.read.ns.labels
            /\ \A k \in DOMAIN fn.read.cr.spec :
                  (/\ lastPass'.kind = "active"
                   /\ isLabelProtected(k, getProtectionConfig(fn.read.cm).Patterns)
                   /\ k \in DOMAIN fn.read.ns.labels
                   /\ fn.read.ns.labels[k] # fn.read.cr.spec[k]) =>
                      \/ lastPass'.err = "protection"
                      \/ k \in Range(lastPass'.skipped[1])
      ]_vars

\* a pass that had read the namespace before an external writer set the
\* protected key k/p to a value other than the desired one had its namespace
\* write rejected, and the namespace carries the external value
C33_Witness ==
    /\ fn.op = "idle"
    /\ lastPass.kind = "active"
    /\ lastPass.nsWrite = "failed"
    /\ lastPass.err = "update"
    /\ KeyP \in DOMAIN lastPass.desired
    /\ KeyP \in DOMAIN ns.labels
    /\ ns.labels[KeyP] # lastPass.desired[KeyP]
    /\ Lookup(lastPass.before, KeyP) # ns.labels[KeyP]
    /\ fn.resourceVersion > fn.read.resourceVersion

\* the resource has been deleted and is gone from the store, its finalizer
\* removed if it had one
TornDown == ~cr.exists

\* C34: once the resource has been deleted and its finalizer removed, the
\* namespace carries no label that a pass set for the resource and that
\* still has the value the pass wrote, whatever writes were rejected on the
\* way.
C34_NoOrphanedMutation ==
    TornDown =>
        \A k \in DOMAIN fn.written : Lookup(ns.labels, k) # fn.written[k]

\* C35: the applied-set recorded by a successful pass holds only pairs that
\* a pass wrote to the namespace, and a label that was on the namespace
\* before the first pass and that no pass ever set (a desired label found
\* with its desired value needs no write) is still on the namespace, with
\* its value, after the resource has been deleted and torn down.
C35_OwnsOnlyWhatItWrote ==
    /\ SuccessfulSync =>
          \A k \in DOMAIN getAppliedLabels(cr) :
              /\ k \in DOMAIN fn.written
              /\ fn.written[k] = getAppliedLabels(cr)[k]
    /\ TornDown =>
          \A k \in DOMAIN fn.initial \ fn.everSet :
              /\ k \in DOMAIN ns.labels
              /\ ns.labels[k] = fn.initial[k]

\* C36: a pass for a resource whose deletion marker is set is a Terminating
\* pass: it leaves every label the namespace has after it as it was before
\* it, removes only labels the applied-set records with their live value,
\* and does not attach the finalizer, also when the resource still desires
\* labels and when it never carried the finalizer.
C36_TerminatingOnlyRemoves ==
    [][(cr.exists /\ cr.deleting /\ lastPass'.kind # "none") =>
          /\ lastPass'.kind = "terminating"
          /\ ns'.exists = ns.exists
          /\ \A k \in DOMAIN ns'.labels :
                k \in DOMAIN ns.labels /\ ns'.labels[k] = ns.labels[k]
          /\ \A k \in DOMAIN ns.labels \ DOMAIN ns'.labels :
                /\ k \in DOMAIN getAppliedLabels(cr)
                /\ getAppliedLabels(cr)[k] = ns.labels[k]
          /\ cr'.finalizer => cr.finalizer
      ]_vars

\* a Terminating pass for a resource that desires labels the namespace lacks
\* and that never carried the finalizer
C36_Witness ==
    /\ lastPass.kind = "terminating"
    /\ ~lastPass.hadFinalizer
    /\ lastPass.nsFound
    /\ \E k \in DOMAIN lastPass.desired : k \notin DOMAIN lastPass.before
    /\ cr.exists
    /\ cr.otherFinalizers
    /\ ~cr.finalizer

\* keys recorded as applied and still desired whose live value is missing or
\* is not the applied value
FnDrifted ==
    {k \in DOMAIN fn.prevApplied \cap DOMAIN fn.desired :
        k \notin DOMAIN fn.current \/ fn.current[k] # fn.prevApplied[k]}

\* C37: detectDrift(live, prevApplied, desired) is true exactly when some key
\* of both prevApplied and desired is missing from live or has a live value
\* other than its prevApplied value; the labels the pass leaves on the
\* namespace do not depend on it: with or without drift every desired key
\* reads its desired value, a key out of desired is removed exactly when the
\* applied-set records it with its live value, and is untouched otherwise.
C37_DriftExactAndAdvisory ==
    fn.op = "detectDrift" =>
        /\ fn.drift <=> FnDrifted # {}
        /\ \A k \in DOMAIN fn.desired : Lookup(fn.labels, k) = fn.desired[k]
        /\ \A k \in Keys \ DOMAIN fn.desired :
              IF /\ k \in DOMAIN fn.prevApplied
                 /\ k \in DOMAIN fn.current
                 /\ fn.current[k] = fn.prevApplied[k]
              THEN k \notin DOMAIN fn.labels
              ELSE /\ (k \in DOMAIN fn.labels) <=> (k \in DOMAIN fn.current)
                   /\ k \in DOMAIN fn.current => fn.labels[k] = fn.current[k]

\* drift on one key only: the other key is recorded and desired with its live
\* value, and the drifted key is back at its desired value
C37_Witness ==
    /\ fn.op = "detectDrift"
    /\ fn.drift
    /\ Cardinality(FnDrifted) = 1
    /\ DOMAIN fn.prevApplied = Keys
    /\ DOMAIN fn.desired = Keys
    /\ \A k \in Keys : k \in DOMAIN fn.labels /\ fn.labels[k] = fn.desired[k]
    /\ \E k \in FnDrifted : k \in DOMAIN fn.current /\ fn.current[k] # fn.desired[k]

\* the outcome of the filter that the iteration order must not change
FilterVerdict(r) ==
    [ok |-> r.ok, allowed |-> r.allowed,
     skipped |-> IF r.skipped = None THEN None ELSE Some(Range(r.skipped[1]))]

\* C38: filterProtectedLabels, applyDesiredLabels and removeStaleLabels give,
\* on the same inputs, the same outcome for every iteration order of the map
\* they range over: the same verdict, allowed map and set of skipped keys
\* (also with several conflicts at once in fail mode), the same resulting
\* label map and the same changed flag.
C38_OrderIndependent ==
    fn.op = "inOrder" =>
        /\ \A order \in Perms(DOMAIN fn.desired) :
              FilterVerdict(filterProtectedLabels(fn.desired, fn.current,
                                                  fn.config, order))
                  = FilterVerdict(fn)
        /\ \A order \in Perms(DOMAIN fn.prevApplied) :
              removeStaleLoop(order, fn.current, fn.desired, fn.prevApplied, FALSE)
                  = fn.stale
        /\ \A order \in Perms(DOMAIN fn.desired) :
              applyDesiredLoop(order, fn.current, fn.desired, FALSE) = fn.set
        /\ fn.stale = removeStaleLabels(fn.current, fn.desired, fn.prevApplied)
        /\ fn.set = applyDesiredLabels(fn.current, fn.desired)

\* fail mode with both desired keys in conflict with a protected label
C38_Witness ==
    /\ fn.op = "inOrder"
    /\ fn.config.Mode = ProtectionModeFail
    /\ ~fn.ok
    /\ Cardinality(FnConflicts) = 2

\* desired key k is in conflict with a protected label of the namespace
ConflictNow(k) ==
    /\ k \in DOMAIN cr.spec
    /\ isLabelProtected(k, getProtectionConfig(cm).Patterns)
    /\ k \in DOMAIN ns.labels
    /\ ns.labels[k] # cr.spec[k]

ReadyIs(status) ==
    /\ Cardinality(ReadyConditions) = 1
    /\ \A i \in ReadyConditions : cr.status.conditions[i].status = status

\* the resource carries the finalizer, every desired label not in conflict
\* with a protected one is on the namespace with its desired value, and the
\* Ready condition is True
Converged ==
    /\ cr.exists
    /\ cr.finalizer
    /\ \A k \in DOMAIN cr.spec :
          ~ConflictNow(k) => k \in DOMAIN ns.labels /\ ns.labels[k] = cr.spec[k]
    /\ ReadyIs(TRUE)

\* fail mode with a desired key in conflict: the resource carries the
\* finalizer, the last pass ended with the protection error without writing
\* the namespace, and the Ready condition is False
Blocked ==
    /\ cr.exists
    /\ cr.finalizer
    /\ getProtectionConfig(cm).Mode = ProtectionModeFail
    /\ \E k \in DOMAIN cr.spec : ConflictNow(k)
    /\ lastPass.err = "protection"
    /\ lastPass.nsWrite = "none"
    /\ ~cr.status.applied
    /\ ReadyIs(FALSE)

\* the pass that attaches the finalizer writes neither the namespace nor the
\* status and leaves a request for the pass that follows
FinalizerPassOnly ==
    lastPass'.kind = "new" =>
        /\ ns' = ns
        /\ cr' = [cr EXCEPT !.finalizer = TRUE]
        /\ lastPass'.requested

====
